---- MODULE Spec2Model ----
(***************************************************************************)
(* Model of the bulk description-generation pipeline of the AI description *)
(* generator backend: OpenAIService.generateDescription and                *)
(* OpenAIService.batchGenerateDescriptions (services/openaiService.ts),    *)
(* the error classes of middleware/errorHandler.ts, and the job record     *)
(* that tracks a bulk request (routes/jobs, documented in the API docs).   *)
(* Further components, each with a specification of its own: the webhook   *)
(* verifiers, ShopifyService.updateProductDescription,                     *)
(* OpenAIService.calculateCost, errorHandler, validateBulkGeneration and   *)
(* authenticateToken.                                                      *)
(*                                                                         *)
(* Strings that the code inspects (the completion text) are sequences of   *)
(* one-character strings; strings the code only copies (messages, ids)     *)
(* are TLA+ strings or numbers.                                            *)
(***************************************************************************)
EXTENDS Integers, Sequences, FiniteSets, TLC

VARIABLES
    products,        \* the input list: sequence of product ids
    options,         \* the shared GenerationOptions
    apiKey,          \* config.openai.apiKey is set
    pc,              \* position of batchGenerateDescriptions / its caller
    i,               \* the loop variable of batchGenerateDescriptions (0-based)
    call,            \* per input position: state of its generateDescription call
    resp,            \* per input position: what the upstream API answered
    outcome,         \* per input position: how generateDescription ended
    batchPromises,   \* per input position: value its map callback resolved to
    results,         \* the BatchGenerationResult being accumulated
    attempts,        \* per input position: generateDescription invocations
    apiCalls,        \* per input position: chat.completions.create calls
    slept,           \* number of inter-chunk pauses taken
    ret,             \* what batchGenerateDescriptions returned
    job,             \* the job record of the bulk request
    cancelRequested, \* DELETE /api/jobs/{jobId} was received
    outOfOrder,      \* history: some call settled before an earlier one of its chunk
    microtasks,      \* positions whose map callback waits to resume, in queue order
    hook,            \* an inbound webhook delivery and the local Subscription mirror
    shop,            \* the store's product descriptions and the pushes made to it
    calc,            \* a calculateCost call
    http,            \* a request on its way through the middleware of the HTTP layer
    redis            \* the Redis keys of config/redis.ts and the calls made on them

batchVars == <<products, options, apiKey, pc, i, call, resp, outcome, batchPromises,
               results, attempts, apiCalls, slept, ret, job, cancelRequested, outOfOrder,
               microtasks>>

sideVars == <<hook, shop, calc, http, redis>>

vars == <<products, options, apiKey, pc, i, call, resp, outcome, batchPromises,
          results, attempts, apiCalls, slept, ret, job, cancelRequested, outOfOrder,
          microtasks, hook, shop, calc, http, redis>>

(***************************************************************************)
(* Bounds and program constants                                            *)
(***************************************************************************)
MaxProducts == 6

MaxText == 3

\* upstream answers that can be handled in one turn of the event loop,
\* before the first of their callbacks resumes
MaxSameTick == 2

\* the length of the long input: five chunks
CancelProducts == 25

batchSize == 5

MinBulkItems == 1

MaxBulkItems == 1000

(***************************************************************************)
(* Text helpers                                                            *)
(***************************************************************************)
Undefined == <<"undefined-value">>

Whitespace == {" ", "\n"}

TextChars == {" ", "\n", "a", "**Product Description:**"}

RECURSIVE TrimStart(_)
TrimStart(s) ==
    IF s = <<>> THEN <<>>
    ELSE IF Head(s) \in Whitespace THEN TrimStart(Tail(s)) ELSE s

RECURSIVE TrimEnd(_)
TrimEnd(s) ==
    IF s = <<>> THEN <<>>
    ELSE IF s[Len(s)] \in Whitespace THEN TrimEnd(SubSeq(s, 1, Len(s) - 1)) ELSE s

\* String.prototype.trim
Trim(s) == TrimEnd(TrimStart(s))

\* the literal section headers the patterns of parseResponse look for; a
\* header is one symbol of a text, and each header contains one blank
DescriptionMarker == "**Product Description:**"

KeywordsMarker == "**Keywords Used:**"

SeoMarker == "**SEO Score:**"

MetaMarker == "**Meta Description:**"

TitleMarker == "**Title Tag:**"

Markers == {DescriptionMarker, KeywordsMarker, SeoMarker, MetaMarker, TitleMarker}

\* description.split(/\s+/).length: one more than the number of whitespace runs
SplitWordsLength(s) ==
    1 + Cardinality({k \in 1..Len(s) :
                        /\ s[k] \in Whitespace
                        /\ (k = 1 \/ s[k - 1] \notin Whitespace)})
      + Cardinality({k \in 1..Len(s) : s[k] \in Markers})

RECURSIVE TextsOfLen(_)
TextsOfLen(n) ==
    IF n = 0 THEN {<<>>}
    ELSE {Append(t, c) : t \in TextsOfLen(n - 1), c \in TextChars}

Texts == UNION {TextsOfLen(n) : n \in 0..MaxText}

(***************************************************************************)
(* What the upstream chat-completions call can do                          *)
(***************************************************************************)
NoError == [code |-> "none", message |-> "none"]

QuotaError == [code |-> "insufficient_quota", message |-> "You exceeded your current quota"]

RateError == [code |-> "rate_limit_exceeded", message |-> "Rate limit reached"]

TimeoutError == [code |-> "none", message |-> "Request timed out."]

UpstreamErrors == {QuotaError, RateError, TimeoutError}

\* a completion whose choices[0].message.content is the string t
Completion(t) == [kind |-> "completion", shape |-> "text", text |-> t, error |-> NoError]

\* a completion with no choice, a choice with no message, a message with null content
Hollow(sh) == [kind |-> "completion", shape |-> sh, text |-> <<>>, error |-> NoError]

Rejected(e) == [kind |-> "error", shape |-> "none", text |-> <<>>, error |-> e]

NoResponse == [kind |-> "none", shape |-> "none", text |-> <<>>, error |-> NoError]

HollowShapes == {"nochoice", "nomessage", "nullcontent"}

AllResponses ==
    {Completion(t) : t \in Texts} \cup {Hollow(sh) : sh \in HollowShapes}
        \cup {Rejected(e) : e \in UpstreamErrors}

\* the responses drawn for position j of a batch of more than one product:
\* a text, a quota error, and a blank text, a rate-limit error or a timeout
BatchResponses(j) ==
    {Completion(<<"a">>), Rejected(QuotaError)}
        \cup (IF j % 3 = 1 THEN {Completion(<<" ">>)}
              ELSE IF j % 3 = 2 THEN {Rejected(RateError)}
              ELSE {Rejected(TimeoutError)})

(***************************************************************************)
(* middleware/errorHandler.ts: the error classes                           *)
(***************************************************************************)
CustomError(class, message, statusCode, code, details) ==
    [class |-> class, message |-> message, statusCode |-> statusCode,
     code |-> code, details |-> details, isOperational |-> TRUE]

ExternalServiceError(service, message, details) ==
    CustomError("ExternalServiceError", service \o " service error: " \o message,
                502, "EXTERNAL_SERVICE_ERROR", details)

\* new Error(message): a plain error, no code
PlainError(message) == [code |-> "none", message |-> message]

(***************************************************************************)
(* OpenAIService.generateDescription                                       *)
(***************************************************************************)
\* completion.choices[0]?.message?.content?.trim()
ContentOf(r) == IF r.shape = "text" THEN Trim(r.text) ELSE Undefined

\* variant: only a missing content is refused, an empty string passes
Falsy_UndefinedOnly(content) == content = Undefined

\* !content
Falsy(content) == content = Undefined \/ content = <<>>

\* the symbols that begin with two asterisks
BoldSymbols == {"**"} \cup Markers

Digits == {"0", "1", "2", "3", "4", "5", "6", "7", "8", "9"}

DigitValue(d) ==
    CASE d = "0" -> 0 [] d = "1" -> 1 [] d = "2" -> 2 [] d = "3" -> 3 [] d = "4" -> 4
      [] d = "5" -> 5 [] d = "6" -> 6 [] d = "7" -> 7 [] d = "8" -> 8 [] d = "9" -> 9

\* seoScore: undefined
NoScore == -1

NoMatch == [found |-> FALSE, group |-> <<>>]

\* the end of the run of symbols from set S that starts right after position p
RunEnd(s, p, S) ==
    IF \E q \in (p + 1)..Len(s) : s[q] \notin S
    THEN (CHOOSE q \in (p + 1)..Len(s) :
             /\ s[q] \notin S
             /\ \A k \in (p + 1)..(q - 1) : s[k] \in S) - 1
    ELSE Len(s)

\* (?=\n\*\*|$) holds right after position e
SectionEnds(s, e) ==
    \/ e = Len(s)
    \/ e + 2 <= Len(s) /\ s[e + 1] = "\n" /\ s[e + 2] \in BoldSymbols

\* the pattern marker \s* \n (.*?) (?=\n\*\*|$) with flag s can match at p
SectionAt(s, p, marker) ==
    /\ s[p] = marker
    /\ \E l \in (p + 1)..RunEnd(s, p, Whitespace) : s[l] = "\n"

\* content.match(/marker\s*\n(.*?)(?=\n\*\*|$)/s): group 1 of the leftmost match
SectionMatch(s, marker) ==
    IF \E p \in 1..Len(s) : SectionAt(s, p, marker)
    THEN LET p == CHOOSE p \in 1..Len(s) :
                     /\ SectionAt(s, p, marker)
                     /\ \A k \in 1..(p - 1) : ~SectionAt(s, k, marker)
             l == CHOOSE l \in (p + 1)..RunEnd(s, p, Whitespace) :
                     /\ s[l] = "\n"
                     /\ \A k \in (l + 1)..RunEnd(s, p, Whitespace) : s[k] # "\n"
             e == CHOOSE e \in l..Len(s) :
                     /\ SectionEnds(s, e)
                     /\ \A k \in l..(e - 1) : ~SectionEnds(s, k)
         IN [found |-> TRUE, group |-> SubSeq(s, l + 1, e)]
    ELSE NoMatch

\* the pattern /\*\*SEO Score:\*\*\s*(\d+)/ can match at p
SeoAt(s, p) ==
    /\ s[p] = SeoMarker
    /\ RunEnd(s, p, Whitespace) < Len(s)
    /\ s[RunEnd(s, p, Whitespace) + 1] \in Digits

\* content.match(/\*\*SEO Score:\*\*\s*(\d+)/): group 1 of the leftmost match
SeoMatch(s) ==
    IF \E p \in 1..Len(s) : SeoAt(s, p)
    THEN LET p == CHOOSE p \in 1..Len(s) :
                     SeoAt(s, p) /\ \A k \in 1..(p - 1) : ~SeoAt(s, k)
             q == RunEnd(s, p, Whitespace)
         IN [found |-> TRUE, group |-> SubSeq(s, q + 1, RunEnd(s, q, Digits))]
    ELSE NoMatch

\* parseInt of a string of decimal digits
RECURSIVE parseInt(_)
parseInt(ds) ==
    IF ds = <<>> THEN 0
    ELSE 10 * parseInt(SubSeq(ds, 1, Len(ds) - 1)) + DigitValue(ds[Len(ds)])

\* s.split(',').map(k => k.trim())
RECURSIVE SplitCommaTrim(_)
SplitCommaTrim(s) ==
    IF \E k \in 1..Len(s) : s[k] = ","
    THEN LET c == CHOOSE k \in 1..Len(s) : s[k] = "," /\ \A m \in 1..(k - 1) : s[m] # ","
         IN <<Trim(SubSeq(s, 1, c - 1))>> \o SplitCommaTrim(SubSeq(s, c + 1, Len(s)))
    ELSE <<Trim(s)>>

\* options.keywords: undefined
NoKeywords == <<Undefined>>

parseResponse(content, opts) ==
    LET descriptionMatch == SectionMatch(content, DescriptionMarker)
        description == IF descriptionMatch.found THEN Trim(descriptionMatch.group)
                       ELSE content
        keywordsMatch == SectionMatch(content, KeywordsMarker)
        seoMatch == SeoMatch(content)
        metaMatch == SectionMatch(content, MetaMarker)
        titleMatch == SectionMatch(content, TitleMarker)
    IN [content |-> description,
        wordCount |-> SplitWordsLength(description),
        seoScore |-> IF seoMatch.found THEN parseInt(seoMatch.group) ELSE NoScore,
        keywords |-> IF keywordsMatch.found THEN SplitCommaTrim(keywordsMatch.group)
                     ELSE IF opts.keywords = NoKeywords THEN <<>> ELSE opts.keywords,
        metaDescription |-> IF metaMatch.found THEN Trim(metaMatch.group) ELSE Undefined,
        titleTag |-> IF titleMatch.found THEN Trim(titleMatch.group) ELSE Undefined]

Returned(v) == [how |-> "return", value |-> v]

Thrown(e) == [how |-> "throw", value |-> e]

NoOutcome == [how |-> "none", value |-> Undefined]

\* variant: the rate-limit branch is missing
CatchGenerate_NoRate(error, title) ==
    IF error.code = "insufficient_quota"
    THEN Thrown(ExternalServiceError("OpenAI", "API quota exceeded", error))
    ELSE Thrown(ExternalServiceError("OpenAI", "Failed to generate description",
                                     [error |-> error.message, productTitle |-> title]))

\* the catch block of generateDescription
CatchGenerate(error, title) ==
    IF error.code = "insufficient_quota"
    THEN Thrown(ExternalServiceError("OpenAI", "API quota exceeded", error))
    ELSE IF error.code = "rate_limit_exceeded"
    THEN Thrown(ExternalServiceError("OpenAI", "Rate limit exceeded", error))
    ELSE Thrown(ExternalServiceError("OpenAI", "Failed to generate description",
                                     [error |-> error.message, productTitle |-> title]))

\* the outcome of generateDescription once the upstream call has answered r
generateDescription(title, opts, r) ==
    IF r.kind = "error" THEN CatchGenerate(r.error, title)
    ELSE IF Falsy(ContentOf(r))
    THEN CatchGenerate(PlainError("No content generated from OpenAI"), title)
    ELSE Returned(parseResponse(ContentOf(r), opts))


(***************************************************************************)
(* Inputs                                                                  *)
(***************************************************************************)
\* n distinct ids in descending order
Rev(n) == [j \in 1..n |-> 100 + (n - j + 1)]

\* n ids that alternate between two products
Dup(n) == [j \in 1..n |-> 100 + (j % 2)]

ProductLists == UNION {{Rev(n), Dup(n)} : n \in 0..MaxProducts}

\* options.keywords || []: a missing keyword list reads as the empty list
OptionsSet == {[keywords |-> <<>>], [keywords |-> <<<<"k">>>>]}

N == Len(products)

Positions == 1..N

\* the upstream answers explored for position j of this input
Responses(j) == IF N <= 1 THEN AllResponses ELSE BatchResponses(j)

\* the one answer explored for position j of the long input
LongResponse(j) == IF j % 3 = 0 THEN Rejected(QuotaError) ELSE Completion(<<"a">>)

ResponsesFor(j) == IF N >= CancelProducts THEN {LongResponse(j)} ELSE Responses(j)

\* a component that takes no part in the specification at hand
Off == [phase |-> "off"]

SideIdle == hook = Off /\ shop = Off /\ calc = Off /\ http = Off /\ redis = Off

(***************************************************************************)
(* The job record of a bulk request (routes/jobs)                          *)
(***************************************************************************)
NoJob == [status |-> "none", total |-> 0, processed |-> 0, successful |-> 0, failed |-> 0]

TerminalStatuses == {"completed", "failed", "cancelled"}

JobTerminal == job.status \in TerminalStatuses

\* validateBulkGeneration: body('productIds').isArray({ min: 1, max: 1000 })
validProductIds(ids) == MinBulkItems <= Len(ids) /\ Len(ids) <= MaxBulkItems

\* the job created when the bulk request is accepted
NewJob(ids) ==
    [status |-> "queued", total |-> Len(ids), processed |-> 0, successful |-> 0, failed |-> 0]

\* variant: a chunk without a single success marks the job failed
JobAfterBarrier_FailOnErrors(jb, res) ==
    IF jb.status = "processing"
    THEN [jb EXCEPT !.processed = Len(res.results),
                    !.successful = res.successful,
                    !.failed = res.failed,
                    !.status = IF res.successful = 0 THEN "failed" ELSE @]
    ELSE jb

\* the job after a chunk barrier: counts taken from the accumulated result
JobAfterBarrier(jb, res) ==
    IF jb.status = "processing"
    THEN [jb EXCEPT !.processed = Len(res.results),
                    !.successful = res.successful,
                    !.failed = res.failed]
    ELSE jb

JobWithStatus(jb, st) == IF jb.status = "none" THEN jb ELSE [jb EXCEPT !.status = st]

\* the cancel flag as seen by the orchestrator at a chunk boundary
CancelObserved == job.status = "processing" /\ cancelRequested

(***************************************************************************)
(* OpenAIService.batchGenerateDescriptions                                 *)
(***************************************************************************)
\* variant: products.slice(iv + 1, iv + batchSize)
Chunk_Skip(iv) == {j \in Positions : iv + 1 < j /\ j <= iv + batchSize}

\* variant: the chunk takes one product more
Chunk_Wide(iv) == {j \in Positions : iv < j /\ j <= iv + batchSize + 1}

\* products.slice(iv, iv + batchSize), as input positions
Chunk(iv) == {j \in Positions : iv < j /\ j <= iv + batchSize}

NewResults(ids) == [total |-> Len(ids), successful |-> 0, failed |-> 0, results |-> <<>>]

NoItem == [productId |-> 0, success |-> FALSE, description |-> Undefined, error |-> "none"]

\* variant: the catch branch forgets the error message
CallbackValue_NoMessage(id, out) ==
    IF out.how = "return"
    THEN [productId |-> id, success |-> TRUE, description |-> out.value, error |-> "none"]
    ELSE [productId |-> id, success |-> FALSE, description |-> Undefined, error |-> "none"]

\* the value the map callback resolves to, from the outcome of generateDescription
CallbackValue(id, out) ==
    IF out.how = "return"
    THEN [productId |-> id, success |-> TRUE, description |-> out.value, error |-> "none"]
    ELSE [productId |-> id, success |-> FALSE, description |-> Undefined,
          error |-> out.value.message]

\* variant: a failure is not counted
CountOutcome_NoFail(res, out) ==
    IF out.how = "return" THEN [res EXCEPT !.successful = @ + 1] ELSE res

\* variant: a failure is counted as a failure and as a success
CountOutcome_Twice(res, out) ==
    IF out.how = "return"
    THEN [res EXCEPT !.successful = @ + 1]
    ELSE [res EXCEPT !.failed = @ + 1, !.successful = @ + 1]

\* variant: a failure takes back a success
CountOutcome_Undo(res, out) ==
    IF out.how = "return"
    THEN [res EXCEPT !.successful = @ + 1]
    ELSE [res EXCEPT !.failed = @ + 1, !.successful = @ - 1]

\* the counters after the callback of one item has run
CountOutcome(res, out) ==
    IF out.how = "return"
    THEN [res EXCEPT !.successful = @ + 1]
    ELSE [res EXCEPT !.failed = @ + 1]

\* variant: Promise.race, the first settled callback releases the chunk
ChunkSettled_Race(iv) == \E j \in Chunk(iv) : call[j] = "settled"

\* variant: the chunk is released while one callback is still waiting
ChunkSettled_AllButOne(iv) ==
    Cardinality({j \in Chunk(iv) : call[j] # "settled"}) <= 1

\* Promise.all(batchPromises) is resolved: every callback of the chunk has returned
ChunkSettled(iv) == \A j \in Chunk(iv) : call[j] = "settled"

\* variant: the chunk is appended last entry first
BatchResults_Reversed(iv) ==
    [k \in 1..Cardinality(Chunk(iv)) |-> batchPromises[iv + Cardinality(Chunk(iv)) - k + 1]]

\* batchResults: the callbacks' values in the order of the batch array
BatchResults(iv) ==
    [k \in 1..Cardinality(Chunk(iv)) |-> batchPromises[iv + k]]

\* batch.map(async ...): every call of the chunk is issued before the first await
StartChunk(iv) ==
    /\ call' = [j \in Positions |-> IF j \in Chunk(iv) THEN "inflight" ELSE call[j]]
    /\ attempts' = [j \in Positions |-> IF j \in Chunk(iv) THEN attempts[j] + 1 ELSE attempts[j]]
    /\ apiCalls' = [j \in Positions |-> IF j \in Chunk(iv) THEN apiCalls[j] + 1 ELSE apiCalls[j]]

TypeOK ==
    /\ products \in ProductLists
    /\ options \in OptionsSet
    /\ apiKey \in BOOLEAN
    /\ pc \in {"idle", "validating", "rejected", "starting", "raised", "await", "sleep", "done", "cancelled"}
    /\ i \in 0..(MaxProducts + batchSize)
    /\ call \in [Positions -> {"notstarted", "inflight", "answered", "settled"}]
    /\ attempts \in [Positions -> 0..2]
    /\ apiCalls \in [Positions -> 0..2]
    /\ slept \in 0..MaxProducts
    /\ cancelRequested \in BOOLEAN
    /\ job.status \in {"none", "queued", "processing"} \cup TerminalStatuses
    /\ outOfOrder \in BOOLEAN
    /\ Len(microtasks) <= MaxSameTick

\* nothing has been called yet
BatchStart ==
    /\ pc = "idle"
    /\ i = 0
    /\ call = [j \in Positions |-> "notstarted"]
    /\ resp = [j \in Positions |-> NoResponse]
    /\ outcome = [j \in Positions |-> NoOutcome]
    /\ batchPromises = [j \in Positions |-> NoItem]
    /\ results = NewResults(<<>>)
    /\ attempts = [j \in Positions |-> 0]
    /\ apiCalls = [j \in Positions |-> 0]
    /\ slept = 0
    /\ ret = NewResults(<<>>)
    /\ job = NoJob
    /\ cancelRequested = FALSE
    /\ outOfOrder = FALSE
    /\ microtasks = <<>>

Init ==
    /\ products \in ProductLists
    /\ options \in OptionsSet
    /\ apiKey \in BOOLEAN
    /\ BatchStart
    /\ SideIdle

\* the long input, with the API key set
InitCancel ==
    /\ products = Rev(CancelProducts)
    /\ options = [keywords |-> <<>>]
    /\ apiKey = TRUE
    /\ BatchStart
    /\ SideIdle

\* the batch pipeline at rest, for the specifications of the other components
BatchIdle ==
    /\ products = <<>>
    /\ options = [keywords |-> <<>>]
    /\ apiKey = TRUE
    /\ BatchStart

\* POST /api/descriptions/bulk-generate arrives: validate runs its chains and
\* returns a promise that is pending at the await of Promise.all
ValidateBulk ==
    /\ pc = "idle" /\ job.status = "none"
    /\ pc' = "validating"
    /\ UNCHANGED <<products, options, apiKey, i, call, resp, outcome, batchPromises,
                   results, attempts, apiCalls, slept, ret, job, cancelRequested, outOfOrder, microtasks>>
    /\ UNCHANGED sideVars

\* validate resumes and calls next(): the handler queues a job
AcceptBulk ==
    /\ pc = "validating" /\ job.status = "none"
    /\ validProductIds(products)
    /\ pc' = "idle"
    /\ job' = NewJob(products)
    /\ UNCHANGED <<products, options, apiKey, i, call, resp, outcome, batchPromises,
                   results, attempts, apiCalls, slept, ret, cancelRequested, outOfOrder, microtasks>>
    /\ UNCHANGED sideVars

\* validate resumes and throws a ValidationError: the request is refused,
\* nothing else runs
RejectBulk ==
    /\ pc = "validating" /\ job.status = "none"
    /\ ~validProductIds(products)
    /\ pc' = "rejected"
    /\ UNCHANGED <<products, options, apiKey, i, call, resp, outcome, batchPromises,
                   results, attempts, apiCalls, slept, ret, job, cancelRequested, outOfOrder, microtasks>>
    /\ UNCHANGED sideVars

\* variant: the cancel handler writes the status itself
RequestCancel_WritesStatus ==
    /\ job.status \in {"queued", "processing"}
    /\ ~cancelRequested
    /\ cancelRequested' = TRUE
    /\ job' = JobWithStatus(job, "cancelled")
    /\ UNCHANGED <<products, options, apiKey, pc, i, call, resp, outcome, batchPromises,
                   results, attempts, apiCalls, slept, ret, outOfOrder, microtasks>>
    /\ UNCHANGED sideVars

\* DELETE /api/jobs/{jobId}
RequestCancel ==
    /\ job.status \in {"queued", "processing"}
    /\ ~cancelRequested
    /\ cancelRequested' = TRUE
    /\ UNCHANGED <<products, options, apiKey, pc, i, call, resp, outcome, batchPromises,
                   results, attempts, apiCalls, slept, ret, job, outOfOrder, microtasks>>
    /\ UNCHANGED sideVars

\* the orchestrator picks the queued job up
JobStart ==
    /\ pc = "idle" /\ job.status = "queued"
    /\ job' = JobWithStatus(job, "processing")
    /\ pc' = "starting"
    /\ UNCHANGED <<products, options, apiKey, i, call, resp, outcome, batchPromises,
                   results, attempts, apiCalls, slept, ret, cancelRequested, outOfOrder, microtasks>>
    /\ UNCHANGED sideVars

\* new OpenAIService() without an API key: the orchestrator cannot start
Raise ==
    /\ \/ pc = "starting"
       \/ pc = "idle" /\ job.status = "none"
    /\ ~apiKey
    /\ pc' = "raised"
    /\ job' = JobWithStatus(job, "failed")
    /\ UNCHANGED <<products, options, apiKey, i, call, resp, outcome, batchPromises,
                   results, attempts, apiCalls, slept, ret, cancelRequested, outOfOrder, microtasks>>
    /\ UNCHANGED sideVars

\* batchGenerateDescriptions is entered: up to the first await, or to the
\* return when there is no product
Enter ==
    /\ \/ pc = "starting" /\ ~CancelObserved
       \/ pc = "idle" /\ job.status = "none"
    /\ apiKey
    /\ i' = 0
    /\ IF 0 < N
       THEN /\ StartChunk(0)
            /\ results' = NewResults(products)
            /\ pc' = "await"
            /\ UNCHANGED <<ret, job>>
       ELSE /\ results' = NewResults(products)
            /\ ret' = NewResults(products)
            /\ pc' = "done"
            /\ job' = JobWithStatus(job, "completed")
            /\ UNCHANGED <<call, attempts, apiCalls>>
    /\ UNCHANGED <<products, options, apiKey, resp, outcome, batchPromises, slept,
                   cancelRequested, outOfOrder, microtasks>>
    /\ UNCHANGED sideVars

\* the upstream call of position j answers r: generateDescription ends, with
\* a return or a throw, and the map callback of j is queued to resume
Settle(j, r) ==
    /\ pc = "await" /\ call[j] = "inflight"
    /\ Len(microtasks) < MaxSameTick
    /\ resp' = [resp EXCEPT ![j] = r]
    /\ outcome' = [outcome EXCEPT ![j] = generateDescription(products[j], options, r)]
    /\ call' = [call EXCEPT ![j] = "answered"]
    /\ microtasks' = Append(microtasks, j)
    /\ outOfOrder' = (outOfOrder \/ \E k \in Chunk(i) : k < j /\ call[k] = "inflight")
    /\ UNCHANGED <<products, options, apiKey, pc, i, batchPromises, results, attempts,
                   apiCalls, slept, ret, job, cancelRequested>>
    /\ UNCHANGED sideVars

\* the map callback at the head of the queue resumes after its await: it
\* counts the outcome and returns its entry
Resume ==
    /\ pc = "await" /\ microtasks # <<>>
    /\ LET j == Head(microtasks) IN
         /\ batchPromises' = [batchPromises EXCEPT
                                 ![j] = CallbackValue(products[j], outcome[j])]
         /\ results' = CountOutcome(results, outcome[j])
         /\ call' = [call EXCEPT ![j] = "settled"]
    /\ microtasks' = Tail(microtasks)
    /\ UNCHANGED <<products, options, apiKey, pc, i, resp, outcome, attempts, apiCalls,
                   slept, ret, job, cancelRequested, outOfOrder>>
    /\ UNCHANGED sideVars

\* variant: the pause is also taken after a chunk that ends the input
Barrier_PauseAtEnd ==
    /\ pc = "await" /\ ChunkSettled(i)
    /\ LET pushed == [results EXCEPT !.results = @ \o BatchResults(i)] IN
         /\ results' = pushed
         /\ IF i + batchSize <= N
            THEN /\ pc' = "sleep"
                 /\ job' = JobAfterBarrier(job, pushed)
                 /\ UNCHANGED <<i, ret>>
            ELSE /\ pc' = "done"
                 /\ i' = i + batchSize
                 /\ ret' = pushed
                 /\ job' = JobWithStatus(JobAfterBarrier(job, pushed), "completed")
    /\ UNCHANGED <<products, options, apiKey, call, resp, outcome, batchPromises,
                   attempts, apiCalls, slept, cancelRequested, outOfOrder, microtasks>>
    /\ UNCHANGED sideVars

\* Promise.all resolves: the chunk is appended; then either the pause starts
\* or the loop ends and the summary is returned
Barrier ==
    /\ pc = "await" /\ ChunkSettled(i)
    /\ LET pushed == [results EXCEPT !.results = @ \o BatchResults(i)] IN
         /\ results' = pushed
         /\ IF i + batchSize < N
            THEN /\ pc' = "sleep"
                 /\ job' = JobAfterBarrier(job, pushed)
                 /\ UNCHANGED <<i, ret>>
            ELSE /\ pc' = "done"
                 /\ i' = i + batchSize
                 /\ ret' = pushed
                 /\ job' = JobWithStatus(JobAfterBarrier(job, pushed), "completed")
    /\ UNCHANGED <<products, options, apiKey, call, resp, outcome, batchPromises,
                   attempts, apiCalls, slept, cancelRequested, outOfOrder, microtasks>>
    /\ UNCHANGED sideVars

\* the 2 second pause is over: the next chunk is started
Wake ==
    /\ pc = "sleep"
    /\ slept' = slept + 1
    /\ i' = i + batchSize
    /\ StartChunk(i + batchSize)
    /\ pc' = "await"
    /\ UNCHANGED <<products, options, apiKey, resp, outcome, batchPromises, results, ret,
                   job, cancelRequested, outOfOrder, microtasks>>
    /\ UNCHANGED sideVars

\* the orchestrator sees the cancel flag before it calls
\* batchGenerateDescriptions: the call is not made
CancelAtBoundary ==
    /\ pc = "starting" /\ CancelObserved
    /\ apiKey
    /\ pc' = "cancelled"
    /\ job' = JobWithStatus(job, "cancelled")
    /\ UNCHANGED <<products, options, apiKey, i, call, resp, outcome, batchPromises,
                   results, attempts, apiCalls, slept, ret, cancelRequested, outOfOrder, microtasks>>
    /\ UNCHANGED sideVars

Next ==
    \/ ValidateBulk
    \/ AcceptBulk
    \/ RejectBulk
    \/ RequestCancel
    \/ JobStart
    \/ Raise
    \/ Enter
    \/ \E j \in Positions : \E r \in ResponsesFor(j) : Settle(j, r)
    \/ Resume
    \/ Barrier
    \/ Wake
    \/ CancelAtBoundary

Spec == Init /\ [][Next]_vars

\* the long bulk job: the same operations, on the input of five chunks
NextCancel ==
    \/ ValidateBulk
    \/ AcceptBulk
    \/ RequestCancel
    \/ JobStart
    \/ Enter
    \/ \E j \in Positions : \E r \in ResponsesFor(j) : Settle(j, r)
    \/ Resume
    \/ Barrier
    \/ Wake
    \/ CancelAtBoundary

SpecCancel == InitCancel /\ [][NextCancel]_vars

\* One product, and answers laid out in the labelled sections that
\* parseResponse extracts: any subset of the five sections, in the order of
\* the prompt, with or without a line of text ahead of them
MaxScoreDigits == 3

ScoreDigits == {"0", "1", "9"}

RECURSIVE DigitStrings(_)
DigitStrings(n) ==
    IF n = 0 THEN {<<>>}
    ELSE {Append(t, d) : t \in DigitStrings(n - 1), d \in ScoreDigits}

Scores == UNION {DigitStrings(n) : n \in 1..MaxScoreDigits}

SectionNames == {"description", "keywords", "seo", "meta", "title"}

Section(name, score) ==
    CASE name = "description" -> <<DescriptionMarker, "\n", "a", " ", "a", "\n">>
      [] name = "keywords" -> <<KeywordsMarker, "\n", "a", ",", " ", "b", "\n">>
      [] name = "seo" -> <<SeoMarker, " ">> \o score \o <<"\n">>
      [] name = "meta" -> <<MetaMarker, "\n", "a", "\n">>
      [] name = "title" -> <<TitleMarker, "\n", "a", "\n">>

Part(name, present, score) == IF name \in present THEN Section(name, score) ELSE <<>>

SectionText(lead, present, score) ==
    (IF lead THEN <<"a", "\n">> ELSE <<>>)
        \o Part("description", present, score) \o Part("keywords", present, score)
        \o Part("seo", present, score) \o Part("meta", present, score)
        \o Part("title", present, score)

ParseTexts ==
    {SectionText(lead, present, score) :
        lead \in BOOLEAN, present \in SUBSET SectionNames, score \in Scores}

ParseOptions == OptionsSet \cup {[keywords |-> NoKeywords]}

InitParse ==
    /\ products = Rev(1)
    /\ options \in ParseOptions
    /\ apiKey = TRUE
    /\ BatchStart
    /\ SideIdle

NextParse ==
    \/ Enter
    \/ \E t \in ParseTexts : Settle(1, Completion(t))
    \/ Resume
    \/ Barrier

SpecParse == InitParse /\ [][NextParse]_vars

\* batchGenerateDescriptions called directly, every upstream call answered in
\* the end: the event loop runs each continuation that is ready, the timer
\* of the pause fires, and each call in flight settles
InitLive ==
    /\ products \in {Rev(n) : n \in 0..MaxProducts}
    /\ options = [keywords |-> <<>>]
    /\ apiKey \in BOOLEAN
    /\ BatchStart
    /\ SideIdle

NextLive ==
    \/ Raise
    \/ Enter
    \/ \E j \in Positions : \E r \in ResponsesFor(j) : Settle(j, r)
    \/ Resume
    \/ Barrier
    \/ Wake

SpecLive ==
    /\ InitLive
    /\ [][NextLive]_vars
    /\ WF_vars(Raise)
    /\ WF_vars(Enter)
    /\ \A j \in 1..(MaxProducts + 1) :
          WF_vars(j \in Positions /\ \E r \in ResponsesFor(j) : Settle(j, r))
    /\ WF_vars(Resume)
    /\ WF_vars(Barrier)
    /\ WF_vars(Wake)


(***************************************************************************)
(* Inbound webhooks: StripeService.verifyWebhook,                          *)
(* ShopifyService.verifyWebhook and the handlers of routes/webhooks        *)
(***************************************************************************)
\* config.stripe.webhookSecret / config.shopify.webhookSecret: the
\* environment's value, or '' when it is unset
WebhookSecrets == {"", "whsec"}

\* keys a sender may sign with
SenderKeys == {"", "whsec", "guess"}

\* raw request bodies; the spaced body is the same JSON value as
\* sub-updated-active, written with other white space
Bodies ==
    {"sub-updated-active", "sub-updated-active (spaced)", "sub-updated-past_due",
     "sub-deleted", "not-json"}

\* createHmac('sha256', key).update(data).digest(): a keyed digest, taken to
\* be free of collisions
Hmac(key, data) == "hmac[" \o key \o "][" \o data \o "]"

\* Stripe-Signature header: a timestamp and a v1 signature of "t.payload"
Timestamps == {"now", "old"}

NoStripeHeader == [t |-> "", v1 |-> ""]

StripeHeaders ==
    {NoStripeHeader} \cup
    {[t |-> t, v1 |-> Hmac(k, t \o "." \o b)] :
        t \in Timestamps, k \in SenderKeys,
        b \in {"sub-updated-active", "sub-updated-active (spaced)", "not-json"}}

\* X-Shopify-Hmac-Sha256 header, "" when it is missing
ShopifyHeaders ==
    {""} \cup {Hmac(k, b) : k \in SenderKeys,
                             b \in {"sub-updated-active (spaced)", "sub-deleted"}}

\* no event
Null == [type |-> "null", status |-> "null"]

\* JSON.parse of a raw body; Null stands for the SyntaxError it throws
ParseJson(body) ==
    IF body \in {"sub-updated-active", "sub-updated-active (spaced)"}
    THEN [type |-> "customer.subscription.updated", status |-> "active"]
    ELSE IF body = "sub-updated-past_due"
    THEN [type |-> "customer.subscription.updated", status |-> "past_due"]
    ELSE IF body = "sub-deleted"
    THEN [type |-> "customer.subscription.deleted", status |-> "canceled"]
    ELSE Null

\* stripe.webhooks.constructEvent throws: header without t or v1, signature
\* that is not the digest of "t.payload" under the secret, timestamp outside
\* the tolerance, or a payload that is not JSON
ConstructEventThrows(payload, header, secret) ==
    \/ header.t = "" \/ header.v1 = ""
    \/ header.v1 # Hmac(secret, header.t \o "." \o payload)
    \/ header.t = "old"
    \/ ParseJson(payload) = Null

\* variant: the catch block hands on the parsed payload
StripeService_verifyWebhook_Unchecked(payload, header, secret) ==
    ParseJson(payload)

\* StripeService.verifyWebhook: the event, or null when constructEvent throws
StripeService_verifyWebhook(payload, header, secret) ==
    IF ConstructEventThrows(payload, header, secret) THEN Null ELSE ParseJson(payload)

\* a request body after express.json(), handed on as it is: an object, not a text
ParsedObject == "[object Object]"

\* ShopifyService.verifyWebhook: hash === signature; hmac.update throws for
\* a value that is not a text and the catch block returns false
ShopifyService_verifyWebhook(rawBody, signature, secret) ==
    rawBody # ParsedObject /\ Hmac(secret, rawBody) = signature

\* the local Subscription status after a verified billing event
SubscriptionAfter(sub, event) ==
    IF event.type = "customer.subscription.updated"
    THEN (IF event.status = "active" THEN "active" ELSE "inactive")
    ELSE IF event.type = "customer.subscription.deleted" THEN "inactive"
    ELSE sub

(***************************************************************************)
(* ShopifyService.updateProductDescription                                 *)
(***************************************************************************)
ShopProducts == {"p1", "p2"}

\* descriptions that are pushed
Descriptions == {<<"d1">>, <<"d2">>}

\* the body_html a product has before any push
OldDescription == <<"old">>

\* calls that can be under way together: bulkUpdateProductDescriptions maps
\* a batch of updates to calls that it awaits together, and two requests
\* can each make a call
Slots == 1..2

FreeSlot == [phase |-> "free", productId |-> "p1", description |-> <<>>,
             served |-> FALSE, answer |-> <<>>, body_html |-> <<>>, thrown |-> "none"]

\* no call has been made for a product
NoLastCall == [slot |-> 0, description |-> <<>>, phase |-> "none", overlapped |-> FALSE]

\* a call is under way: it has been made and has neither returned nor thrown
UnderWay(k) == shop.slots[k].phase \in {"session", "put"}

\* variant: the description is sent inside a paragraph element
PutRequest_Wrapped(productId, description) ==
    [id |-> productId, body_html |-> <<"<p>">> \o description]

\* client.put({path: products/{productId},
\*             data: {product: {id: productId, body_html: description}}})
PutRequest(productId, description) ==
    [id |-> productId, body_html |-> description]

\* the store serves PUT products/{id}: it replaces the product's body_html
\* with the one of the request
StoreAfterPut(store, request) ==
    [store EXCEPT ![request.id] = request.body_html]

\* the record of the calls made for a product, once call k has ended
LastCallEnded(last, k, productId, phase) ==
    IF last[productId].slot = k /\ last[productId].phase = "underway"
    THEN [last EXCEPT ![productId].phase = phase]
    ELSE last

\* updateProductDescription is called: up to the await of getSession; the
\* call hands back its promise and no PUT has been issued
UpdateProductDescription(k, productId, description) ==
    /\ shop.phase = "on"
    /\ shop.slots[k].phase \in {"free", "returned", "thrown"}
    /\ shop' = [shop EXCEPT
                  !.slots[k] =
                      [phase |-> "session", productId |-> productId,
                       description |-> description, served |-> FALSE,
                       answer |-> <<>>, body_html |-> <<>>, thrown |-> "none"],
                  !.pushed[productId] = @ \cup {description},
                  !.last[productId] =
                      [slot |-> k, description |-> description, phase |-> "underway",
                       overlapped |->
                           \E m \in Slots \ {k} :
                               UnderWay(m) /\ shop.slots[m].productId = productId]]
    /\ UNCHANGED batchVars
    /\ UNCHANGED <<hook, calc, http, redis>>

\* the continuation after getSession: new Rest({ session }) and client.put
\* is issued, up to its await
IssuePut(k) ==
    /\ shop.phase = "on"
    /\ shop.slots[k].phase = "session"
    /\ shop' = [shop EXCEPT !.slots[k].phase = "put"]
    /\ UNCHANGED batchVars
    /\ UNCHANGED <<hook, calc, http, redis>>

\* the store serves the PUT of call k while the call waits at await
\* client.put: the product is replaced and the answer, the product as it
\* is stored then, is on its way back
StoreServesPut(k) ==
    /\ shop.phase = "on"
    /\ shop.slots[k].phase = "put" /\ ~shop.slots[k].served
    /\ LET c == shop.slots[k]
           after == StoreAfterPut(shop.store, PutRequest(c.productId, c.description))
       IN  shop' = [shop EXCEPT
                      !.store = after,
                      !.slots[k].served = TRUE,
                      !.slots[k].answer = after[c.productId]]
    /\ UNCHANGED batchVars
    /\ UNCHANGED <<hook, calc, http, redis>>

\* the answer of the PUT arrives: the call resumes and returns
\* response.body.product
PutReturns(k) ==
    /\ shop.phase = "on"
    /\ shop.slots[k].phase = "put" /\ shop.slots[k].served
    /\ LET c == shop.slots[k]
       IN  shop' = [shop EXCEPT
                      !.returns[c.productId] = IF @ < 2 THEN @ + 1 ELSE @,
                      !.last = LastCallEnded(@, k, c.productId, "returned"),
                      !.slots[k].phase = "returned",
                      !.slots[k].body_html = c.answer]
    /\ UNCHANGED batchVars
    /\ UNCHANGED <<hook, calc, http, redis>>

\* client.put rejects: the catch block throws ExternalServiceError; the
\* store has served the PUT before the failure or never serves it
PutThrows(k) ==
    /\ shop.phase = "on"
    /\ shop.slots[k].phase = "put"
    /\ LET c == shop.slots[k]
       IN  shop' = [shop EXCEPT
                      !.last = LastCallEnded(@, k, c.productId, "thrown"),
                      !.slots[k].phase = "thrown",
                      !.slots[k].thrown =
                          ExternalServiceError("Shopify", "Failed to update product",
                                               c.productId).code]
    /\ UNCHANGED batchVars
    /\ UNCHANGED <<hook, calc, http, redis>>

InitShop ==
    /\ BatchIdle
    /\ shop = [phase |-> "on",
               store |-> [p \in ShopProducts |-> OldDescription],
               pushed |-> [p \in ShopProducts |-> {}],
               returns |-> [p \in ShopProducts |-> 0],
               last |-> [p \in ShopProducts |-> NoLastCall],
               slots |-> [k \in Slots |-> FreeSlot]]
    /\ hook = Off /\ calc = Off /\ http = Off /\ redis = Off

NextShop ==
    \/ \E k \in Slots : \E p \in ShopProducts : \E d \in Descriptions :
          UpdateProductDescription(k, p, d)
    \/ \E k \in Slots : IssuePut(k)
    \/ \E k \in Slots : StoreServesPut(k)
    \/ \E k \in Slots : PutReturns(k)
    \/ \E k \in Slots : PutThrows(k)

SpecShop == InitShop /\ [][NextShop]_vars

(***************************************************************************)
(* OpenAIService.calculateCost                                             *)
(*                                                                         *)
(* Prices are kept in thousandths of a dollar per 1K tokens, so a cost is  *)
(* a whole number of millionths of a dollar.                               *)
(***************************************************************************)
\* the largest token count explored
MaxTokens == 1000

\* the model argument left out
OmittedModel == "<undefined>"

\* the keys of the pricing object literal
PriceTableModels == {"gpt-4", "gpt-4-turbo", "gpt-3.5-turbo"}

\* property names every object literal inherits from Object.prototype
ObjectPrototypeKeys ==
    {"constructor", "toString", "toLocaleString", "valueOf", "hasOwnProperty",
     "isPrototypeOf", "propertyIsEnumerable", "__proto__",
     "__defineGetter__", "__defineSetter__", "__lookupGetter__", "__lookupSetter__"}

\* model names a caller passes
ModelNames ==
    PriceTableModels
        \cup {"gpt-5", "", OmittedModel, "constructor", "toString", "__defineGetter__"}

\* a value of the pricing table
PriceEntry(input, output) == [kind |-> "entry", input |-> input, output |-> output]

\* the result of a property read that finds nothing
UndefinedValue == [kind |-> "undefined", input |-> 0, output |-> 0]

\* an inherited member: truthy, without input and output
InheritedMember == [kind |-> "inherited", input |-> 0, output |-> 0]

\* pricing[model]
pricing(model) ==
    IF model = "gpt-4" THEN PriceEntry(30, 60)
    ELSE IF model = "gpt-4-turbo" THEN PriceEntry(10, 30)
    ELSE IF model = "gpt-3.5-turbo" THEN PriceEntry(1, 2)
    ELSE IF model \in ObjectPrototypeKeys THEN InheritedMember
    ELSE UndefinedValue

\* Math.ceil(tokenCount * tenths / 10)
CeilTenths(tokenCount, tenths) == (tokenCount * tenths + 9) \div 10

\* the result of arithmetic on undefined
NaN == -1

\* variant: the token counts are rounded down
calculateCost_Floor(tokenCount, modelArg) ==
    LET model == IF modelArg = OmittedModel THEN "gpt-4" ELSE modelArg
        found == pricing(model)
        modelPricing == IF found.kind # "undefined" THEN found ELSE pricing("gpt-4")
    IN  IF modelPricing.kind = "inherited" THEN NaN
        ELSE ((tokenCount * 7) \div 10) * modelPricing.input
                + ((tokenCount * 3) \div 10) * modelPricing.output

\* calculateCost(tokenCount, model = 'gpt-4'), in millionths of a dollar
calculateCost(tokenCount, modelArg) ==
    LET model == IF modelArg = OmittedModel THEN "gpt-4" ELSE modelArg
        found == pricing(model)
        modelPricing == IF found.kind # "undefined" THEN found ELSE pricing("gpt-4")
        inputTokens == CeilTenths(tokenCount, 7)
        outputTokens == CeilTenths(tokenCount, 3)
    IN  IF modelPricing.kind = "inherited" THEN NaN
        ELSE inputTokens * modelPricing.input + outputTokens * modelPricing.output

\* a caller asks for the cost of a token count under a model
CalculateCost ==
    /\ calc.phase = "called"
    /\ calc' = [calc EXCEPT !.phase = "returned",
                            !.result = calculateCost(calc.tokenCount, calc.model)]
    /\ UNCHANGED batchVars
    /\ UNCHANGED <<hook, shop, http, redis>>

InitCost ==
    /\ BatchIdle
    /\ calc \in {[phase |-> "called", tokenCount |-> t, model |-> m, result |-> 0] :
                   t \in 0..MaxTokens, m \in ModelNames}
    /\ hook = Off /\ shop = Off /\ http = Off /\ redis = Off

NextCost == CalculateCost

SpecCost == InitCost /\ [][NextCost]_vars

(***************************************************************************)
(* middleware/errorHandler.ts: the taxonomy and errorHandler               *)
(*                                                                         *)
(* An error is a record of the properties errorHandler reads.  A status    *)
(* code of 0 and a code of "" stand for undefined: both are falsy, as      *)
(* undefined is.                                                           *)
(***************************************************************************)
\* details: undefined
NoDetails == [kind |-> "undefined", errors |-> {}]

\* details: {errors: [...]} of a failed validation, by field
ErrorDetails(fields) == [kind |-> "errors", errors |-> fields]

\* details of a failed upstream call
ServiceDetails == [kind |-> "service", errors |-> {}]

ValidationError(message, details) ==
    CustomError("ValidationError", message, 400, "VALIDATION_ERROR", details)

AuthenticationError(message) ==
    CustomError("AuthenticationError", message, 401, "AUTHENTICATION_ERROR", NoDetails)

AuthorizationError(message) ==
    CustomError("AuthorizationError", message, 403, "AUTHORIZATION_ERROR", NoDetails)

NotFoundError(message) ==
    CustomError("NotFoundError", message, 404, "NOT_FOUND_ERROR", NoDetails)

RateLimitError(message) ==
    CustomError("RateLimitError", message, 429, "RATE_LIMIT_ERROR", NoDetails)

\* the classes of the taxonomy
TaxonomyClasses ==
    {"ValidationError", "AuthenticationError", "AuthorizationError", "NotFoundError",
     "RateLimitError", "ExternalServiceError"}

\* an exception that is not a CustomError, with the statusCode and code it
\* carries of its own (0 and "" when it has none)
ForeignError(class, message, statusCode, code) ==
    [class |-> class, message |-> message, statusCode |-> statusCode, code |-> code,
     details |-> NoDetails, isOperational |-> FALSE]

\* error.name: the classes of this file never set it, so theirs is 'Error'
ErrorName(e) ==
    IF e.class \in TaxonomyClasses \cup {"CustomError"} THEN "Error"
    ELSE IF e.class = "SyntaxError(body)" THEN "SyntaxError"
    ELSE IF e.class = "SystemError" THEN "Error"
    ELSE IF e.class = "mongoose.ValidationError" THEN "ValidationError"
    ELSE e.class

\* error.stack: the header is the name alone when the message is empty
StackOf(e) ==
    (IF e.message = "" THEN ErrorName(e) ELSE ErrorName(e) \o ": " \o e.message)
        \o "\n    at ..."

\* the errors of the taxonomy that handlers and middleware throw
TaxonomyErrors ==
    {ValidationError("Validation failed", ErrorDetails({"productIds"})),
     ValidationError("Title is required", NoDetails),
     ValidationError("", NoDetails),
     AuthenticationError("Authentication failed"),
     AuthorizationError("Insufficient permissions"),
     NotFoundError("Resource not found"),
     RateLimitError("Rate limit exceeded"),
     ExternalServiceError("OpenAI", "Failed to generate description", ServiceDetails),
     ExternalServiceError("Shopify", "Failed to update product", NoDetails)}

\* exceptions from outside the taxonomy
UnexpectedErrors ==
    {ForeignError("Error", "boom", 0, ""),
     ForeignError("Error", "", 0, ""),
     ForeignError("TypeError", "Cannot read properties of undefined (reading id)", 0, ""),
     ForeignError("SystemError", "connect ECONNREFUSED 10.0.0.5:5432", 0, "ECONNREFUSED"),
     ForeignError("PayloadTooLargeError", "request entity too large", 413, ""),
     ForeignError("SyntaxError(body)", "Unexpected token } in JSON at position 10", 400, ""),
     ForeignError("JsonWebTokenError", "jwt malformed", 0, ""),
     ForeignError("TokenExpiredError", "jwt expired", 0, ""),
     ForeignError("mongoose.ValidationError", "Path title is required.", 0, ""),
     ForeignError("CastError", "Cast to ObjectId failed", 0, ""),
     ForeignError("PrismaClientKnownRequestError", "Unique constraint failed", 0, "P2002"),
     ForeignError("PrismaClientKnownRequestError", "Record to delete does not exist", 0, "P2025"),
     ForeignError("PrismaClientKnownRequestError", "Foreign key constraint failed", 0, "P2003"),
     ForeignError("PrismaClientKnownRequestError", "Relation violation", 0, "P2014"),
     ForeignError("PrismaClientKnownRequestError", "Table does not exist", 0, "P2021"),
     ForeignError("PrismaClientValidationError", "Argument id is missing", 0, "")}

NodeEnvs == {"production", "development", "test"}

\* the error whose fields the response is built from: error itself, unless
\* one of the branches replaces it (a later branch wins)
CustomErrorOf(error) ==
    LET prisma ==
            IF error.class = "PrismaClientKnownRequestError"
            THEN CASE error.code = "P2002" ->
                        CustomError("CustomError", "Unique constraint violation", 409,
                                    "DUPLICATE_ERROR", [kind |-> "field", errors |-> {}])
                   [] error.code = "P2025" -> NotFoundError("Record not found")
                   [] error.code = "P2003" ->
                        ValidationError("Foreign key constraint violation", NoDetails)
                   [] error.code = "P2014" ->
                        ValidationError("Required relation missing", NoDetails)
                   [] OTHER ->
                        CustomError("CustomError", "Database operation failed", 500,
                                    "DATABASE_ERROR", NoDetails)
            ELSE error
        prismaValidation ==
            IF error.class = "PrismaClientValidationError"
            THEN ValidationError("Invalid data provided", NoDetails) ELSE prisma
        jwt ==
            IF ErrorName(error) = "JsonWebTokenError"
            THEN AuthenticationError("Invalid token") ELSE prismaValidation
        expired ==
            IF ErrorName(error) = "TokenExpiredError"
            THEN AuthenticationError("Token expired") ELSE jwt
        validation ==
            IF ErrorName(error) = "ValidationError"
            THEN ValidationError(error.message, NoDetails) ELSE expired
        cast ==
            IF ErrorName(error) = "CastError"
            THEN ValidationError("Invalid ID format", NoDetails) ELSE validation
    IN  IF error.class = "SyntaxError(body)"
        THEN ValidationError("Invalid JSON format", NoDetails) ELSE cast

\* no response
NoResponseBody ==
    [status |-> 0, fields |-> {}, error |-> "", code |-> "", details |-> NoDetails,
     stack |-> "", path |-> "", method |-> ""]

\* variant: the response is built from the defaults alone
errorHandler_DefaultsOnly(error, path, method, requestId, nodeEnv) ==
    [status |-> 500,
     fields |-> {"error", "code", "timestamp", "path", "method"},
     error |-> "Something went wrong", code |-> "INTERNAL_ERROR",
     details |-> NoDetails, stack |-> "", path |-> path, method |-> method]

\* errorHandler: res.status(statusCode).json(errorResponse)
errorHandler(error, path, method, requestId, nodeEnv) ==
    LET customError == CustomErrorOf(error)
        statusCode == IF customError.statusCode # 0 THEN customError.statusCode ELSE 500
        code == IF customError.code # "" THEN customError.code ELSE "INTERNAL_ERROR"
        message == IF customError.message # "" THEN customError.message
                   ELSE "Something went wrong"
        hasDetails == customError.details.kind # "undefined"
    IN  [status |-> statusCode,
         fields |-> {"error", "code", "timestamp", "path", "method"}
                      \cup (IF requestId THEN {"requestId"} ELSE {})
                      \cup (IF hasDetails THEN {"details"} ELSE {})
                      \cup (IF nodeEnv = "development" THEN {"stack"} ELSE {})
                      \cup (IF statusCode \in {429, 403, 404} THEN {"suggestion"} ELSE {}),
         error |-> message,
         code |-> code,
         details |-> IF hasDetails THEN customError.details ELSE NoDetails,
         stack |-> IF nodeEnv = "development" THEN StackOf(error) ELSE "",
         path |-> path,
         method |-> method]

\* an error is passed to next(): Express calls errorHandler, which answers
HandleError ==
    /\ http.mw = "errorHandler" /\ http.stage = "raised"
    /\ http' = [http EXCEPT
                  !.stage = "responded",
                  !.response = errorHandler(http.error, http.path, http.method,
                                            http.requestId, http.nodeEnv)]
    /\ UNCHANGED batchVars
    /\ UNCHANGED <<hook, shop, calc, redis>>

\* developmentErrorHandler: the object handed to res.json is built from the
\* error as it is, with its stack and the request, in every environment
developmentErrorHandler(error, url, method) ==
    [status |-> IF error.statusCode # 0 THEN error.statusCode ELSE 500,
     fields |-> {"error", "code", "stack", "details", "url", "method", "body",
                 "params", "query", "timestamp"},
     error |-> error.message,
     code |-> IF error.code # "" THEN error.code ELSE "INTERNAL_ERROR",
     details |-> error.details,
     stack |-> StackOf(error),
     url |-> url,
     method |-> method]

\* the exported handler for development, when it is the one Express calls
DevelopmentErrorHandler ==
    /\ http.mw = "developmentErrorHandler" /\ http.stage = "raised"
    /\ http' = [http EXCEPT
                  !.stage = "responded",
                  !.response = developmentErrorHandler(http.error, http.path, http.method)]
    /\ UNCHANGED batchVars
    /\ UNCHANGED <<hook, shop, calc, redis>>

\* the error handlers errorHandler.ts exports
ErrorHandlers == {"errorHandler", "developmentErrorHandler"}

InitError ==
    /\ BatchIdle
    /\ http \in {[mw |-> w, stage |-> "raised", error |-> e,
                  path |-> p, method |-> m, requestId |-> r, nodeEnv |-> n,
                  response |-> NoResponseBody] :
                    w \in ErrorHandlers, e \in TaxonomyErrors \cup UnexpectedErrors,
                    p \in {"/bulk-generate"}, m \in {"GET", "POST"},
                    r \in BOOLEAN, n \in NodeEnvs}
    /\ hook = Off /\ shop = Off /\ calc = Off /\ redis = Off

NextError == HandleError \/ DevelopmentErrorHandler

SpecError == InitError /\ [][NextError]_vars

(***************************************************************************)
(* A webhook delivery: the middleware of index.ts ahead of the routers,    *)
(* then the handlers of routes/webhooks                                    *)
(***************************************************************************)
\* JSON.stringify of a parsed body: the text without optional white space
JSONStringifyBody(value) ==
    IF value = [type |-> "customer.subscription.updated", status |-> "active"]
    THEN "sub-updated-active"
    ELSE IF value = [type |-> "customer.subscription.updated", status |-> "past_due"]
    THEN "sub-updated-past_due"
    ELSE IF value = [type |-> "customer.subscription.deleted", status |-> "canceled"]
    THEN "sub-deleted"
    ELSE "null"

\* what a handler can give its verifier: express.json() has consumed the
\* raw text, req.body is the parsed value
HandlerArguments == {"req.body", "JSON.stringify(req.body)"}

HandedPayload(body, handed) ==
    IF handed = "req.body" THEN ParsedObject ELSE JSONStringifyBody(ParseJson(body))

\* the answer given before a router is reached, 0 when there is none: the
\* limiter answers 429 to an address over its quota; express.json() passes
\* the SyntaxError of a body that is not JSON to errorHandler
PreRouteStatus(body, limited) ==
    IF limited THEN 429
    ELSE IF ParseJson(body) = Null
    THEN errorHandler(ForeignError("SyntaxError(body)",
                                   "Unexpected token o in JSON at position 1", 400, ""),
                      "/api/webhooks", "POST", FALSE, "production").status
    ELSE 0

\* the webhook surface before a delivery
HookReady(secret, sub) ==
    [phase |-> "ready", secret |-> secret, provider |-> "none", body |-> "",
     payload |-> "", verified |-> FALSE,
     stripeHeader |-> NoStripeHeader, shopifyHeader |-> "",
     event |-> Null, ok |-> FALSE, status |-> 0, read |-> FALSE,
     subscription |-> sub, before |-> sub]

\* POST /api/webhooks/stripe: limiter and body parser, then the handler:
\* verify, then mirror the subscription
StripeWebhook(body, header, limited, handed) ==
    /\ hook.phase \in {"ready", "handled"}
    /\ LET pre == PreRouteStatus(body, limited)
           payload == HandedPayload(body, handed)
           event == IF pre # 0 THEN Null
                    ELSE StripeService_verifyWebhook(payload, header, hook.secret)
       IN  hook' = [hook EXCEPT
                      !.phase = "handled", !.provider = "stripe", !.body = body,
                      !.payload = IF pre # 0 THEN "" ELSE payload,
                      !.verified = (pre = 0),
                      !.stripeHeader = header, !.shopifyHeader = "",
                      !.event = event, !.ok = (event # Null),
                      !.status = IF pre # 0 THEN pre
                                 ELSE IF event = Null THEN 400 ELSE 200,
                      !.read = (event # Null),
                      !.before = hook.subscription,
                      !.subscription = IF event = Null THEN hook.subscription
                                       ELSE SubscriptionAfter(hook.subscription, event)]
    /\ UNCHANGED batchVars
    /\ UNCHANGED <<shop, calc, http, redis>>

\* POST /api/webhooks/shopify: limiter and body parser, then the handler:
\* verify, then read the payload
ShopifyWebhook(body, signature, limited, handed) ==
    /\ hook.phase \in {"ready", "handled"}
    /\ LET pre == PreRouteStatus(body, limited)
           payload == HandedPayload(body, handed)
           ok == pre = 0 /\ ShopifyService_verifyWebhook(payload, signature, hook.secret)
       IN  hook' = [hook EXCEPT
                      !.phase = "handled", !.provider = "shopify", !.body = body,
                      !.payload = IF pre # 0 THEN "" ELSE payload,
                      !.verified = (pre = 0),
                      !.stripeHeader = NoStripeHeader, !.shopifyHeader = signature,
                      !.event = IF ok THEN ParseJson(body) ELSE Null, !.ok = ok,
                      !.status = IF pre # 0 THEN pre ELSE IF ok THEN 200 ELSE 401,
                      !.read = ok,
                      !.before = hook.subscription]
    /\ UNCHANGED batchVars
    /\ UNCHANGED <<shop, calc, http, redis>>

InitWebhook ==
    /\ BatchIdle
    /\ hook \in {HookReady(k, s) : k \in WebhookSecrets, s \in {"active", "inactive"}}
    /\ shop = Off /\ calc = Off /\ http = Off /\ redis = Off

NextWebhook ==
    \/ \E b \in Bodies : \E h \in StripeHeaders : \E limited \in BOOLEAN :
          \E handed \in HandlerArguments : StripeWebhook(b, h, limited, handed)
    \/ \E b \in Bodies : \E h \in ShopifyHeaders : \E limited \in BOOLEAN :
          \E handed \in HandlerArguments : ShopifyWebhook(b, h, limited, handed)

SpecWebhook == InitWebhook /\ [][NextWebhook]_vars

(***************************************************************************)
(* middleware/validation.ts: validate and validateBulkGeneration           *)
(*                                                                         *)
(* A value of the JSON request body is a record that carries its type;     *)
(* strings are sequences of one-character strings.                         *)
(***************************************************************************)
\* the limits of validateBulkGeneration
MaxKeywords == 20

MinKeywordLength == 1

MaxKeywordLength == 100

MinLanguageLength == 2

MaxLanguageLength == 5

MinWordCount == 50

MaxWordCount == 1000

Tones == {"professional", "casual", "friendly", "formal", "playful", "luxury"}

JUndefined == [type |-> "undefined", text |-> <<>>, num |-> 0, bool |-> FALSE, items |-> <<>>]

JString(t) == [type |-> "string", text |-> t, num |-> 0, bool |-> FALSE, items |-> <<>>]

JNumber(n) == [type |-> "number", text |-> <<>>, num |-> n, bool |-> FALSE, items |-> <<>>]

JBool(b) == [type |-> "boolean", text |-> <<>>, num |-> 0, bool |-> b, items |-> <<>>]

JArray(s) == [type |-> "array", text |-> <<>>, num |-> 0, bool |-> FALSE, items |-> s]

JNull == [type |-> "null", text |-> <<>>, num |-> 0, bool |-> FALSE, items |-> <<>>]

\* an object that is not an array
JObject == [type |-> "object", text |-> <<>>, num |-> 0, bool |-> FALSE, items |-> <<>>]

\* an array of n copies of a value
Repeat(v, n) == JArray([k \in 1..n |-> v])

\* a string of n letters
Letters(n) == JString([k \in 1..n |-> "a"])

\* .optional(): the chain is skipped for a field that is undefined
Supplied(v) == v.type # "undefined"

\* the decimal digits of a natural number
DigitChar(d) ==
    CASE d = 0 -> "0" [] d = 1 -> "1" [] d = 2 -> "2" [] d = 3 -> "3" [] d = 4 -> "4"
      [] d = 5 -> "5" [] d = 6 -> "6" [] d = 7 -> "7" [] d = 8 -> "8" [] d = 9 -> "9"

RECURSIVE Decimal(_)
Decimal(n) == IF n < 10 THEN <<DigitChar(n)>> ELSE Append(Decimal(n \div 10), DigitChar(n % 10))

\* Object.prototype.toString of a plain object: [object Object]
ObjectText ==
    <<"[", "o", "b", "j", "e", "c", "t", " ", "O", "b", "j", "e", "c", "t", "]">>

RECURSIVE TextOf(_)
RECURSIVE JoinOf(_)
\* String(value) of a primitive, value.toString() of an array or an object,
\* and the empty text for null and undefined
TextOf(w) ==
    CASE w.type = "string" -> w.text
      [] w.type = "number" -> Decimal(w.num)
      [] w.type = "boolean" -> IF w.bool THEN <<"t", "r", "u", "e">>
                               ELSE <<"f", "a", "l", "s", "e">>
      [] w.type = "array" -> JoinOf(w.items)
      [] w.type = "object" -> ObjectText
      [] OTHER -> <<>>

\* Array.prototype.toString: the texts of the elements with commas between
JoinOf(items) ==
    IF items = <<>> THEN <<>>
    ELSE IF Len(items) = 1 THEN TextOf(items[1])
    ELSE TextOf(items[1]) \o <<",">> \o JoinOf(Tail(items))

\* toString(value) of the library: the text of the value, and for an array
\* that is not empty the text of its first element
toStringOf(v) ==
    IF v.type = "array" /\ v.items # <<>> THEN TextOf(v.items[1]) ELSE TextOf(v)

\* a standard validator or sanitizer is run on the value, and for an array
\* on each of its elements
ValuesOf(v) == IF v.type = "array" THEN v.items ELSE <<v>>

\* variant: no upper limit on the number of items
isArray_NoMax(v, min, max) == v.type = "array" /\ Len(v.items) >= min

\* .isArray({min, max})
isArray(v, min, max) == v.type = "array" /\ Len(v.items) >= min /\ Len(v.items) <= max

\* .isString()
isString(v) == v.type = "string"

\* .isLength({min, max})
isLength(v, min, max) ==
    \A k \in 1..Len(ValuesOf(v)) :
        LET str == toStringOf(ValuesOf(v)[k])
        IN  Len(str) >= min /\ Len(str) <= max

\* .isLength({min})
isLengthMin(v, min) ==
    \A k \in 1..Len(ValuesOf(v)) : Len(toStringOf(ValuesOf(v)[k])) >= min

\* .trim(): the text of the value without blanks at its ends, and for an
\* array the array of the trimmed texts of its elements
trimmed(v) ==
    IF v.type = "array"
    THEN JArray([k \in 1..Len(v.items) |-> JString(Trim(toStringOf(v.items[k])))])
    ELSE JString(Trim(toStringOf(v)))

\* .isIn(values); a tone is carried as the one symbol of the text
isIn(v, values) ==
    \A k \in 1..Len(ValuesOf(v)) :
        LET str == toStringOf(ValuesOf(v)[k])
        IN  Len(str) = 1 /\ str[1] \in values

\* .isBoolean(): 'true', 'false', '1' or '0'
isBoolean(v) ==
    \A k \in 1..Len(ValuesOf(v)) :
        toStringOf(ValuesOf(v)[k])
            \in {<<"t", "r", "u", "e">>, <<"f", "a", "l", "s", "e">>, <<"1">>, <<"0">>}

\* /^[-+]?[0-9]+$/, the pattern of isInt when allow_leading_zeroes is not
\* set to false, and the number the text stands for
IntegerDigits(str) == IF str # <<>> /\ str[1] \in {"+", "-"} THEN Tail(str) ELSE str

IntegerText(str) ==
    LET ds == IntegerDigits(str)
    IN  /\ ds # <<>>
        /\ \A k \in 1..Len(ds) : ds[k] \in Digits

IntegerOf(str) ==
    IF str[1] = "-" THEN 0 - parseInt(IntegerDigits(str)) ELSE parseInt(IntegerDigits(str))

\* .isInt({min, max})
isInt(v, min, max) ==
    \A k \in 1..Len(ValuesOf(v)) :
        LET str == toStringOf(ValuesOf(v)[k])
        IN  /\ IntegerText(str)
            /\ IntegerOf(str) >= min /\ IntegerOf(str) <= max

\* the request body of a bulk generation; config is undefined, something
\* that is not an object, or an object with the five options
NoConfig == [type |-> "undefined", keywords |-> JUndefined, tone |-> JUndefined,
             language |-> JUndefined, seoOptimization |-> JUndefined,
             wordCount |-> JUndefined]

StringConfig == [NoConfig EXCEPT !.type = "string"]

NullConfig == [NoConfig EXCEPT !.type = "null"]

Config(keywords, tone, language, seoOptimization, wordCount) ==
    [type |-> "object", keywords |-> keywords, tone |-> tone, language |-> language,
     seoOptimization |-> seoOptimization, wordCount |-> wordCount]

\* the failed chains of validateBulkGeneration, by field
BulkErrors(b) ==
    {f \in {"productIds", "productIds.*", "config", "config.keywords",
            "config.keywords.*", "config.tone", "config.language",
            "config.seoOptimization", "config.wordCount"} :
       \/ f = "productIds" /\ ~isArray(b.productIds, MinBulkItems, MaxBulkItems)
       \/ f = "productIds.*" /\ b.productIds.type = "array"
             /\ \E k \in 1..Len(b.productIds.items) :
                   ~(isString(b.productIds.items[k]) /\ isLengthMin(b.productIds.items[k], 1))
       \/ f = "config" /\ b.config.type \notin {"undefined", "object"}
       \/ f = "config.keywords" /\ Supplied(b.config.keywords)
             /\ ~isArray(b.config.keywords, 0, MaxKeywords)
       \/ f = "config.keywords.*" /\ b.config.keywords.type = "array"
             /\ \E k \in 1..Len(b.config.keywords.items) :
                   ~isLength(trimmed(b.config.keywords.items[k]),
                             MinKeywordLength, MaxKeywordLength)
       \/ f = "config.tone" /\ Supplied(b.config.tone) /\ ~isIn(b.config.tone, Tones)
       \/ f = "config.language" /\ Supplied(b.config.language)
             /\ ~isLength(b.config.language, MinLanguageLength, MaxLanguageLength)
       \/ f = "config.seoOptimization" /\ Supplied(b.config.seoOptimization)
             /\ ~isBoolean(b.config.seoOptimization)
       \/ f = "config.wordCount" /\ Supplied(b.config.wordCount)
             /\ ~isInt(b.config.wordCount, MinWordCount, MaxWordCount)}

\* request bodies
AnId == JString(<<"p", "1">>)

AKeyword == JString(<<"k">>)

ProductIdValues ==
    {JUndefined, JString(<<"p", "1">>), JArray(<<>>), Repeat(AnId, MinBulkItems),
     Repeat(AnId, MaxBulkItems), Repeat(AnId, MaxBulkItems + 1),
     JArray(<<JString(<<>>)>>), JArray(<<AnId, JNumber(5)>>),
     JArray(<<AnId, JArray(<<AnId>>)>>)}

KeywordValues ==
    {JUndefined, Repeat(AKeyword, MaxKeywords), Repeat(AKeyword, MaxKeywords + 1),
     JArray(<<JString(<<" ">>)>>), JArray(<<JString(<<" ", "k", " ">>)>>),
     JArray(<<Letters(MaxKeywordLength)>>), JArray(<<Letters(MaxKeywordLength + 1)>>),
     JArray(<<JNumber(5), JArray(<<JString(<<" ", "k">>), JNull>>)>>),
     JArray(<<AKeyword, JNull>>), JString(<<"k">>)}

ToneValues ==
    {JUndefined, JString(<<"casual">>), JString(<<"luxury">>), JString(<<"angry">>),
     JArray(<<JString(<<"casual">>)>>), JArray(<<JString(<<"casual">>), JString(<<"angry">>)>>),
     JArray(<<>>), JNull}

LanguageValues ==
    {JUndefined, Letters(MinLanguageLength - 1), Letters(MinLanguageLength),
     Letters(MaxLanguageLength), Letters(MaxLanguageLength + 1),
     JNumber(12345), JArray(<<Letters(MinLanguageLength), JBool(TRUE)>>), JObject}

SeoValues ==
    {JUndefined, JBool(TRUE), JString(<<"1">>), JString(<<"y", "e", "s">>),
     JNumber(1), JNumber(2), JArray(<<JBool(FALSE), JString(<<"0">>)>>)}

WordCountValues ==
    {JUndefined, JNumber(MinWordCount - 1), JNumber(MinWordCount), JNumber(MaxWordCount),
     JNumber(MaxWordCount + 1), JString(<<"a">>), JString(<<"1", "0", "0">>),
     JString(<<"+", "1", "0", "0">>), JString(<<"0", "5", "0">>),
     JString(<<"-", "6", "0">>), JArray(<<JNumber(MinWordCount), JString(<<>>)>>)}

\* every combination of the options is sent with a list of product ids that
\* passes and with one that does not
Configs ==
    {NoConfig, StringConfig, NullConfig} \cup
    {Config(k, t, l, s, w) : k \in KeywordValues, t \in ToneValues, l \in LanguageValues,
                             s \in SeoValues, w \in WordCountValues}

BulkBodies ==
    {[productIds |-> p, config |-> c] :
        p \in {Repeat(AnId, MinBulkItems), JArray(<<JString(<<>>)>>)}, c \in Configs}
    \cup {[productIds |-> p, config |-> c] :
             p \in ProductIdValues,
             c \in {NoConfig, StringConfig, NullConfig,
                    Config(JArray(<<AKeyword>>), JString(<<"casual">>),
                           Letters(MinLanguageLength), JBool(TRUE), JNumber(MinWordCount))}}

\* what the chains leave in req.body: the sanitizer .trim() of
\* 'config.keywords.*' writes each keyword back as a string without the
\* blanks at its ends
Sanitized(b) ==
    IF b.config.type = "object" /\ b.config.keywords.type = "array"
    THEN [b EXCEPT !.config.keywords =
            JArray([k \in 1..Len(b.config.keywords.items) |->
                      trimmed(b.config.keywords.items[k])])]
    ELSE b

\* validate(validations) up to its await: every chain is started on the
\* request and the middleware returns a promise that is still pending;
\* req.body is as it was sent
Validate ==
    /\ http.mw = "validate" /\ http.stage = "run"
    /\ http' = [http EXCEPT !.stage = "pending"]
    /\ UNCHANGED batchVars
    /\ UNCHANGED <<hook, shop, calc, redis>>

\* the chains run to their end: the failed fields are recorded and the
\* sanitised values are written into req.body; the chains advance in
\* microtasks of this one request, between which nothing else reads req
RunChains ==
    /\ http.mw = "validate" /\ http.stage = "pending"
    /\ http' = [http EXCEPT !.stage = "awaited",
                            !.failed = BulkErrors(http.body),
                            !.body = Sanitized(http.body)]
    /\ UNCHANGED batchVars
    /\ UNCHANGED <<hook, shop, calc, redis>>

\* validate after Promise.all: next() when validationResult(req) is empty,
\* otherwise throw ValidationError('Validation failed', {errors})
ValidateResume ==
    /\ http.mw = "validate" /\ http.stage = "awaited"
    /\ IF http.failed = {}
       THEN http' = [http EXCEPT !.stage = "next", !.nextCalls = @ + 1]
       ELSE http' = [http EXCEPT
                       !.stage = "thrown",
                       !.error = ValidationError("Validation failed",
                                                 ErrorDetails(http.failed))]
    /\ UNCHANGED batchVars
    /\ UNCHANGED <<hook, shop, calc, redis>>

\* what becomes of the promise that validate rejects depends on the Express
\* the build resolves: version 5 passes the error to next(), and
\* errorHandler answers
RejectionForwarded ==
    /\ http.mw = "validate" /\ http.stage = "thrown"
    /\ http' = [http EXCEPT
                  !.stage = "responded",
                  !.response = errorHandler(http.error, http.path, http.method,
                                            http.requestId, http.nodeEnv)]
    /\ UNCHANGED batchVars
    /\ UNCHANGED <<hook, shop, calc, redis>>

\* version 4 leaves the rejection unhandled: nobody answers
RejectionUnhandled ==
    /\ http.mw = "validate" /\ http.stage = "thrown"
    /\ http' = [http EXCEPT !.stage = "unhandled"]
    /\ UNCHANGED batchVars
    /\ UNCHANGED <<hook, shop, calc, redis>>

InitValidate ==
    /\ BatchIdle
    /\ http \in {[mw |-> "validate", stage |-> "run", sent |-> b, body |-> b,
                  failed |-> {},
                  error |-> ValidationError("", NoDetails), nextCalls |-> 0,
                  path |-> "/bulk-generate", method |-> "POST", requestId |-> FALSE,
                  nodeEnv |-> "production", response |-> NoResponseBody] :
                    b \in BulkBodies}
    /\ hook = Off /\ shop = Off /\ calc = Off /\ redis = Off

NextValidate == Validate \/ RunChains \/ ValidateResume \/ RejectionForwarded \/ RejectionUnhandled

SpecValidate == InitValidate /\ [][NextValidate]_vars

(***************************************************************************)
(* middleware/auth.ts: authenticateToken on the protected mounts           *)
(*                                                                         *)
(* A URL path is the sequence of its segments, a header the sequence of    *)
(* its blank-separated words.                                              *)
(***************************************************************************)
\* app.use(mount, authenticateToken, routes)
ProtectedMounts ==
    {<<"api", "products">>, <<"api", "descriptions">>, <<"api", "jobs">>,
     <<"api", "analytics">>, <<"api", "subscriptions">>}

\* what a request path continues with after the mount
PathRests ==
    {<<>>, <<"123">>, <<"bulk-generate">>, <<"api", "auth", "refresh">>,
     <<"api", "auth", "profile">>}

\* req.path inside a middleware mounted with app.use(mount, ...): the path
\* of the request without the mount
ReqPath(url, mount) == SubSeq(url, Len(mount) + 1, Len(url))

publicEndpoints == {<<"api", "auth", "refresh">>, <<"api", "auth", "profile">>}

\* tokens: one that verifies, one past its expiry, one with a wrong signature
Tokens == {"valid", "expired", "forged"}

\* the authorization header: absent, without a second word, or with a token
AuthHeaders == {<<>>, <<"Bearer">>} \cup {<<"Bearer", t>> : t \in Tokens}

NoToken == "<undefined>"

\* authHeader && authHeader.split(' ')[1]
TokenOf(authHeader) == IF Len(authHeader) >= 2 THEN authHeader[2] ELSE NoToken

\* jwt.verify(token, secret): the class of what it throws, "none" when it
\* returns the decoded payload
VerifyThrows(token) ==
    IF token = "valid" THEN "none"
    ELSE IF token = "expired" THEN "TokenExpiredError"
    ELSE "JsonWebTokenError"

\* error instanceof jwt.JsonWebTokenError: TokenExpiredError extends it
IsJsonWebTokenError(class) == class \in {"JsonWebTokenError", "TokenExpiredError"}

\* prisma.user.findUnique: the user's subscriptionStatus, no user, or a throw
DbResults == {"active", "inactive", "past_due", "<null>", "<throws>"}

AuthResponse(status, code) == [status |-> status, code |-> code]

\* res.status(status).json(...); return
Respond(h, status, code) ==
    [h EXCEPT !.stage = "responded", !.response = AuthResponse(status, code),
              !.responses = @ + 1]

\* authenticateToken up to the await of findUnique
AuthenticateToken ==
    /\ http.mw = "auth" /\ http.stage = "arrived"
    /\ LET token == TokenOf(http.header)
       IN  IF token = NoToken
           THEN http' = Respond(http, 401, "TOKEN_MISSING")
           ELSE IF VerifyThrows(token) # "none"
           THEN IF IsJsonWebTokenError(VerifyThrows(token))
                THEN http' = Respond(http, 401, "TOKEN_INVALID")
                ELSE IF VerifyThrows(token) = "TokenExpiredError"
                THEN http' = Respond(http, 401, "TOKEN_EXPIRED")
                ELSE http' = Respond(http, 500, "AUTH_ERROR")
           ELSE http' = [http EXCEPT !.stage = "findUnique"]
    /\ UNCHANGED batchVars
    /\ UNCHANGED <<hook, shop, calc, redis>>

\* authenticateToken from the result of findUnique on
UserLookedUp(user) ==
    /\ http.mw = "auth" /\ http.stage = "findUnique"
    /\ LET h == [http EXCEPT !.user = user]
       IN  IF user = "<throws>"
           THEN http' = Respond(h, 500, "AUTH_ERROR")
           ELSE IF user = "<null>"
           THEN http' = Respond(h, 401, "USER_NOT_FOUND")
           ELSE IF ReqPath(http.url, http.mount) \notin publicEndpoints /\ user # "active"
           THEN http' = Respond(h, 403, "SUBSCRIPTION_REQUIRED")
           ELSE http' = [h EXCEPT !.stage = "next", !.reqUser = user,
                                  !.nextCalls = @ + 1]
    /\ UNCHANGED batchVars
    /\ UNCHANGED <<hook, shop, calc, redis>>

\* next() without an answer
CallNext(h) == [h EXCEPT !.stage = "next", !.nextCalls = @ + 1]

\* optionalAuth up to the await of findUnique: no token, or a token that
\* jwt.verify refuses, goes on without a user
OptionalAuth ==
    /\ http.mw = "optionalAuth" /\ http.stage = "arrived"
    /\ LET token == TokenOf(http.header)
       IN  IF token = NoToken \/ VerifyThrows(token) # "none"
           THEN http' = CallNext(http)
           ELSE http' = [http EXCEPT !.stage = "findUnique"]
    /\ UNCHANGED batchVars
    /\ UNCHANGED <<hook, shop, calc, redis>>

\* optionalAuth from the result of findUnique on: req.user is set for every
\* user found, whatever the subscription; a failed lookup is swallowed
OptionalUserLookedUp(user) ==
    /\ http.mw = "optionalAuth" /\ http.stage = "findUnique"
    /\ LET h == [http EXCEPT !.user = user]
       IN  IF user \in {"<throws>", "<null>"}
           THEN http' = CallNext(h)
           ELSE http' = CallNext([h EXCEPT !.reqUser = user])
    /\ UNCHANGED batchVars
    /\ UNCHANGED <<hook, shop, calc, redis>>

\* the two middlewares of auth.ts that read the token
TokenMiddlewares == {"auth", "optionalAuth"}

InitAuth ==
    /\ BatchIdle
    /\ http \in {[mw |-> w, stage |-> "arrived", mount |-> m, url |-> m \o r,
                  header |-> a, user |-> "<unread>", reqUser |-> "<unset>",
                  response |-> AuthResponse(0, ""), responses |-> 0, nextCalls |-> 0] :
                    w \in TokenMiddlewares, m \in ProtectedMounts, r \in PathRests,
                    a \in AuthHeaders}
    /\ hook = Off /\ shop = Off /\ calc = Off /\ redis = Off

NextAuth ==
    \/ AuthenticateToken
    \/ \E u \in DbResults : UserLookedUp(u)
    \/ OptionalAuth
    \/ \E u \in DbResults : OptionalUserLookedUp(u)

SpecAuth == InitAuth /\ [][NextAuth]_vars

(***************************************************************************)
(* middleware/auth.ts: requirePlan and requireFeature; config.plans        *)
(***************************************************************************)
\* the three tiers
PlanTiers == {"basic", "pro", "enterprise"}

\* req.user.plan: a tier, or something else the user record holds
UserPlans == PlanTiers \cup {"free", "", "constructor", "valueOf", "__proto__"}

\* no req.user
NoUser == "<no user>"

\* requirePlan(requiredPlan) as the routes call it, with a name that is no
\* tier, and with names that the object literal inherits
RequiredPlans == PlanTiers \cup {"premium", "toString", "__proto__", "__defineGetter__"}

\* the features of planFeatures and of config.plans
Features ==
    {"seoOptimization", "bulkGeneration", "customTone", "multiLanguage",
     "customTraining", "apiAccess"}

\* the letters in the order of their code units
UpperCase ==
    <<"A", "B", "C", "D", "E", "F", "G", "H", "I", "J", "K", "L", "M",
      "N", "O", "P", "Q", "R", "S", "T", "U", "V", "W", "X", "Y", "Z">>

LowerCase ==
    <<"a", "b", "c", "d", "e", "f", "g", "h", "i", "j", "k", "l", "m",
      "n", "o", "p", "q", "r", "s", "t", "u", "v", "w", "x", "y", "z">>

\* the UTF-16 code unit of a character of a member's text
CodeUnit(c) ==
    IF \E k \in 1..26 : UpperCase[k] = c
    THEN 64 + (CHOOSE k \in 1..26 : UpperCase[k] = c)
    ELSE IF \E k \in 1..26 : LowerCase[k] = c
    THEN 96 + (CHOOSE k \in 1..26 : LowerCase[k] = c)
    ELSE CASE c = " " -> 32 [] c = "(" -> 40 [] c = ")" -> 41 [] c = "[" -> 91
           [] c = "]" -> 93 [] c = "_" -> 95 [] c = "{" -> 123 [] c = "}" -> 125

\* s < t on two strings: the first code unit that differs decides, and a
\* proper prefix is the smaller one
StringLess(s, t) ==
    \E k \in 1..Len(t) :
       /\ \A m \in 1..(k - 1) : m <= Len(s) /\ s[m] = t[m]
       /\ \/ k = Len(s) + 1
          \/ k <= Len(s) /\ CodeUnit(s[k]) < CodeUnit(t[k])

\* the name of the function that Object.prototype holds under a key, letter
\* by letter: the key itself, except that constructor is the function Object
MemberName(plan) ==
    CASE plan = "constructor" ->
            <<"O", "b", "j", "e", "c", "t">>
      [] plan = "hasOwnProperty" ->
            <<"h", "a", "s", "O", "w", "n", "P", "r", "o", "p", "e", "r",
              "t", "y">>
      [] plan = "isPrototypeOf" ->
            <<"i", "s", "P", "r", "o", "t", "o", "t", "y", "p", "e", "O",
              "f">>
      [] plan = "propertyIsEnumerable" ->
            <<"p", "r", "o", "p", "e", "r", "t", "y", "I", "s", "E", "n",
              "u", "m", "e", "r", "a", "b", "l", "e">>
      [] plan = "toLocaleString" ->
            <<"t", "o", "L", "o", "c", "a", "l", "e", "S", "t", "r", "i",
              "n", "g">>
      [] plan = "toString" ->
            <<"t", "o", "S", "t", "r", "i", "n", "g">>
      [] plan = "valueOf" ->
            <<"v", "a", "l", "u", "e", "O", "f">>
      [] plan = "__defineGetter__" ->
            <<"_", "_", "d", "e", "f", "i", "n", "e", "G", "e", "t", "t",
              "e", "r", "_", "_">>
      [] plan = "__defineSetter__" ->
            <<"_", "_", "d", "e", "f", "i", "n", "e", "S", "e", "t", "t",
              "e", "r", "_", "_">>
      [] plan = "__lookupGetter__" ->
            <<"_", "_", "l", "o", "o", "k", "u", "p", "G", "e", "t", "t",
              "e", "r", "_", "_">>
      [] plan = "__lookupSetter__" ->
            <<"_", "_", "l", "o", "o", "k", "u", "p", "S", "e", "t", "t",
              "e", "r", "_", "_">>

\* String(member) for an inherited member: __proto__ is Object.prototype
\* itself, every other one a native function
MemberText(plan) ==
    IF plan = "__proto__"
    THEN <<"[", "o", "b", "j", "e", "c", "t", " ", "O", "b", "j", "e", "c",
           "t", "]">>
    ELSE <<"f", "u", "n", "c", "t", "i", "o", "n", " ">> \o MemberName(plan)
           \o <<"(", ")", " ", "{", " ", "[", "n", "a", "t", "i", "v", "e",
                " ", "c", "o", "d", "e", "]", " ", "}">>

\* a level: a number of the table or -1, or an inherited member
NumberLevel(n) == [type |-> "number", value |-> n, text |-> <<>>]

MemberLevel(plan) == [type |-> "member", value |-> 0, text |-> MemberText(plan)]

\* planHierarchy[plan] || -1: 0 is falsy, and so is undefined; an inherited
\* member is truthy
PlanLevel(plan) ==
    LET found == CASE plan = "basic" -> NumberLevel(0)
                   [] plan = "pro" -> NumberLevel(1)
                   [] plan = "enterprise" -> NumberLevel(2)
                   [] plan \in ObjectPrototypeKeys -> MemberLevel(plan)
                   [] OTHER -> [type |-> "undefined", value |-> 0, text |-> <<>>]
    IN  IF found.type = "undefined" \/ (found.type = "number" /\ found.value = 0)
        THEN NumberLevel(-1)
        ELSE found

\* userPlanLevel < requiredPlanLevel: two numbers by value, two members by
\* their texts; a member against a number is NaN against it, which is false
LevelBelow(a, b) ==
    IF a.type = "number" /\ b.type = "number" THEN a.value < b.value
    ELSE IF a.type = "member" /\ b.type = "member" THEN StringLess(a.text, b.text)
    ELSE FALSE

\* planFeatures[plan]
planFeatures(plan) ==
    CASE plan = "basic" -> {"seoOptimization", "bulkGeneration"}
      [] plan = "pro" -> {"seoOptimization", "bulkGeneration", "customTone", "multiLanguage"}
      [] plan = "enterprise" ->
            {"seoOptimization", "bulkGeneration", "customTone", "multiLanguage",
             "customTraining", "apiAccess"}
      [] OTHER -> {}

\* config.plans[plan].features[feature] === true
ConfigPlanFeature(plan, feature) ==
    CASE plan = "basic" -> feature \in {"seoOptimization"}
      [] plan = "pro" -> feature \in {"customTone", "seoOptimization", "bulkGeneration"}
      [] plan = "enterprise" ->
            feature \in {"customTone", "seoOptimization", "bulkGeneration",
                         "customTraining", "apiAccess"}
      [] OTHER -> FALSE

\* the middleware has answered: res.status(status).json({code, ...}); return
GateResponds(h, status, code) ==
    [h EXCEPT !.stage = "responded", !.response = [status |-> status, code |-> code],
              !.responses = @ + 1]

\* requirePlan(requiredPlan)(req, res, next)
RequirePlan ==
    /\ http.mw = "gate" /\ http.stage = "arrived"
    /\ LET h == [http EXCEPT !.gate = "requirePlan"]
       IN  IF http.plan = NoUser
           THEN http' = GateResponds(h, 401, "AUTH_REQUIRED")
           ELSE IF LevelBelow(PlanLevel(http.plan), PlanLevel(http.requiredPlan))
           THEN http' = GateResponds(h, 403, "UPGRADE_REQUIRED")
           ELSE http' = [h EXCEPT !.stage = "next", !.nextCalls = @ + 1]
    /\ UNCHANGED batchVars
    /\ UNCHANGED <<hook, shop, calc, redis>>

\* requireFeature(feature)(req, res, next); an inherited member has no
\* includes, so the call throws a TypeError
RequireFeature ==
    /\ http.mw = "gate" /\ http.stage = "arrived"
    /\ LET h == [http EXCEPT !.gate = "requireFeature"]
       IN  IF http.plan = NoUser
           THEN http' = GateResponds(h, 401, "AUTH_REQUIRED")
           ELSE IF http.plan \in ObjectPrototypeKeys
           THEN http' = [h EXCEPT !.stage = "thrown"]
           ELSE IF http.feature \notin planFeatures(http.plan)
           THEN http' = GateResponds(h, 403, "FEATURE_NOT_AVAILABLE")
           ELSE http' = [h EXCEPT !.stage = "next", !.nextCalls = @ + 1]
    /\ UNCHANGED batchVars
    /\ UNCHANGED <<hook, shop, calc, redis>>

InitGate ==
    /\ BatchIdle
    /\ http \in {[mw |-> "gate", stage |-> "arrived", gate |-> "none", plan |-> p,
                  requiredPlan |-> r, feature |-> f,
                  response |-> [status |-> 0, code |-> ""],
                  responses |-> 0, nextCalls |-> 0] :
                    p \in UserPlans \cup {NoUser}, r \in RequiredPlans, f \in Features}
    /\ hook = Off /\ shop = Off /\ calc = Off /\ redis = Off

NextGate == RequirePlan \/ RequireFeature

SpecGate == InitGate /\ [][NextGate]_vars

(***************************************************************************)
(* config/redis.ts: rateLimiter.check and rateLimiter.reset                *)
(***************************************************************************)
RateCallers == 3

MaxLimit == 2

WindowSeconds == 2

\* the last second of the clock
MaxClock == 4

\* how many times rateLimiter.reset is called
MaxResets == 1

Callers == 1..RateCallers

\* Math.floor(now / windowSeconds)
WindowOf(now) == now \div WindowSeconds

Windows == 0..WindowOf(MaxClock)

\* redis.expire(redisKey, windowSeconds) received at second now: the key is
\* gone from that second on
KeyExpiry(now) == now + WindowSeconds

\* current <= limit
WithinLimit(current, limit) == current <= limit

IdleCaller ==
    [pc |-> "idle", window |-> 0, current |-> 0,
     failed |-> FALSE, result |-> FALSE]

\* rateLimiter.reset at rest
IdleReset == [pc |-> "idle", keys |-> {}, calls |-> 0, result |-> FALSE]

\* callers are numbered in the order in which they call check
NextToCheck(c) == \A d \in Callers : d < c => redis.callers[d].pc # "idle"

\* const now = ...; const window = ...; const redisKey = ...
CheckBegin(c) ==
    /\ redis.callers[c].pc = "idle"
    /\ NextToCheck(c)
    /\ redis' = [redis EXCEPT !.callers[c].pc = "incr",
                              !.callers[c].window = WindowOf(redis.clock)]
    /\ UNCHANGED batchVars
    /\ UNCHANGED <<hook, shop, calc, http>>

\* await redis.incr(redisKey) answers: one atomic step of the server; a
\* count other than 1 goes straight to the return
CheckIncr(c) ==
    /\ redis.callers[c].pc = "incr"
    /\ LET w == redis.callers[c].window
           current == redis.count[w] + 1
       IN redis' = [redis EXCEPT
              !.count[w] = current,
              !.callers[c].current = current,
              !.callers[c].pc = IF current = 1 THEN "expire" ELSE "returned",
              !.callers[c].result = WithinLimit(current, redis.limit)]
    /\ UNCHANGED batchVars
    /\ UNCHANGED <<hook, shop, calc, http>>

\* await redis.expire(redisKey, windowSeconds) answers, then the return
CheckExpire(c) ==
    /\ redis.callers[c].pc = "expire"
    /\ LET w == redis.callers[c].window IN
         redis' = [redis EXCEPT
              !.expireAt[w] = IF redis.count[w] > 0 THEN KeyExpiry(redis.clock) ELSE @,
              !.volatile = IF redis.count[w] > 0 THEN @ \cup {w} ELSE @,
              !.callers[c].pc = "returned",
              !.callers[c].result = WithinLimit(redis.callers[c].current, redis.limit)]
    /\ UNCHANGED batchVars
    /\ UNCHANGED <<hook, shop, calc, http>>

\* the awaited command rejects: catch, return true
CheckRedisFails(c) ==
    /\ redis.callers[c].pc \in {"incr", "expire"}
    /\ redis' = [redis EXCEPT !.callers[c].pc = "returned",
                              !.callers[c].failed = TRUE,
                              !.callers[c].result = TRUE]
    /\ UNCHANGED batchVars
    /\ UNCHANGED <<hook, shop, calc, http>>

\* reset(key) is called: redis.keys is sent
ResetBegin ==
    /\ redis.reset.pc \in {"idle", "returned"}
    /\ redis.reset.calls < MaxResets
    /\ redis' = [redis EXCEPT !.reset.pc = "keys", !.reset.calls = @ + 1]
    /\ UNCHANGED batchVars
    /\ UNCHANGED <<hook, shop, calc, http>>

\* await redis.keys(key + ':*') answers with the counters that exist, those
\* of every window; with none the call returns true
ResetKeys ==
    /\ redis.reset.pc = "keys"
    /\ LET keys == {w \in Windows : redis.count[w] > 0}
       IN redis' = [redis EXCEPT
              !.reset.keys = keys,
              !.reset.pc = IF keys # {} THEN "del" ELSE "returned",
              !.reset.result = TRUE]
    /\ UNCHANGED batchVars
    /\ UNCHANGED <<hook, shop, calc, http>>

\* await redis.del(keys) answers: one atomic step of the server, which drops
\* those of the keys that still exist; then the return
ResetDel ==
    /\ redis.reset.pc = "del"
    /\ LET gone == {w \in redis.reset.keys : redis.count[w] > 0}
       IN redis' = [redis EXCEPT
              !.count = [w \in Windows |-> IF w \in gone THEN 0 ELSE redis.count[w]],
              !.volatile = @ \ gone,
              !.deleted = [w \in Windows |-> IF w \in gone THEN @[w] + 1 ELSE @[w]],
              !.reset.pc = "returned",
              !.reset.result = TRUE]
    /\ UNCHANGED batchVars
    /\ UNCHANGED <<hook, shop, calc, http>>

\* the awaited command of reset rejects: catch, return false
ResetRedisFails ==
    /\ redis.reset.pc \in {"keys", "del"}
    /\ redis' = [redis EXCEPT !.reset.pc = "returned", !.reset.result = FALSE]
    /\ UNCHANGED batchVars
    /\ UNCHANGED <<hook, shop, calc, http>>

\* a second passes; the server drops the keys whose time to live is over
ClockTick ==
    /\ redis.clock < MaxClock
    /\ LET now == redis.clock + 1
           gone == {w \in redis.volatile : redis.expireAt[w] <= now}
       IN redis' = [redis EXCEPT
              !.clock = now,
              !.count = [w \in Windows |-> IF w \in gone THEN 0 ELSE redis.count[w]],
              !.volatile = @ \ gone]
    /\ UNCHANGED batchVars
    /\ UNCHANGED <<hook, shop, calc, http>>

InitRate ==
    /\ BatchIdle
    /\ redis \in {[use |-> "limiter", clock |-> 0, limit |-> l,
                   count |-> [w \in Windows |-> 0],
                   expireAt |-> [w \in Windows |-> 0],
                   volatile |-> {},
                   deleted |-> [w \in Windows |-> 0],
                   reset |-> IdleReset,
                   callers |-> [c \in Callers |-> IdleCaller]] : l \in 1..MaxLimit}
    /\ hook = Off /\ shop = Off /\ calc = Off /\ http = Off

NextRate ==
    \/ \E c \in Callers : CheckBegin(c)
    \/ \E c \in Callers : CheckIncr(c)
    \/ \E c \in Callers : CheckExpire(c)
    \/ \E c \in Callers : CheckRedisFails(c)
    \/ ResetBegin
    \/ ResetKeys
    \/ ResetDel
    \/ ResetRedisFails
    \/ ClockTick

SpecRate == InitRate /\ [][NextRate]_vars

(***************************************************************************)
(* config/redis.ts: queue                                                  *)
(***************************************************************************)
MaxJobs == 3

MaxGets == 3

AddCalls == 1..MaxJobs

GetCalls == 1..MaxGets

\* null, as a return value of the queue functions
NullResult == [kind |-> "null"]

\* jobData and options of an add call: delay and attempts 0 stand for an
\* option that is not given
JobInputs ==
    {[data |-> "text", delay |-> 0, attempts |-> 0],
     [data |-> "NaN", delay |-> 500, attempts |-> 5],
     [data |-> "undefined", delay |-> 2000, attempts |-> 0]}

\* the job id: queue name, Date.now() and nine random characters; the ids of
\* different add calls are taken to differ
JobIdOf(a) == a

\* the add calls are numbered in the order in which Redis serves their LPUSH
NextToPush(a) ==
    /\ redis.adds[a].pc = "idle"
    /\ \A b \in AddCalls : b < a => redis.adds[b].pc # "idle"

\* options?.attempts || 3
AttemptsOf(input) == IF input.attempts = 0 THEN 3 ELSE input.attempts

\* JSON.stringify(queueData): NaN is written as null, an undefined member is left out
JSONStringify(queueData) ==
    [json |-> [id |-> queueData.id,
               data |-> CASE queueData.data = "NaN" -> "null"
                          [] queueData.data = "undefined" -> "absent"
                          [] OTHER -> queueData.data,
               attempts |-> queueData.attempts]]

\* JSON.parse(result)
JSONParse(text) ==
    [kind |-> "job", id |-> text.json.id, data |-> text.json.data,
     attempts |-> text.json.attempts]

\* variant: the entry is put at the end the consumers pop from
LPush_Tail(list, entry) == Append(list, entry)

\* LPUSH: the entry becomes the head of the list
LPush(list, entry) == <<entry>> \o list

\* Math.floor(options.delay / 1000) is a time to live that SETEX accepts
SetExAccepts(delay) == delay \div 1000 >= 1

IdleAdd == [pc |-> "idle", delay |-> 0, pushed |-> FALSE, ret |-> NullResult]

\* a getSize call: the number it returned, and the number of jobs that were
\* pushed and not yet handed out at the moment Redis was asked
IdleSize == [pc |-> "idle", failed |-> FALSE, result |-> 0, pending |-> 0]

IdleGet == [pc |-> "idle", sawEmpty |-> FALSE, failed |-> FALSE, result |-> NullResult]

\* queue.add up to the answer of redis.lPush; without a delay the id is returned
QueueAdd(a, input) ==
    /\ NextToPush(a)
    /\ LET queueData == [id |-> JobIdOf(a), data |-> input.data,
                         attempts |-> AttemptsOf(input)]
       IN redis' = [redis EXCEPT
              !.list = LPush(@, JSONStringify(queueData)),
              !.added = Append(@, JobIdOf(a)),
              !.adds[a].delay = input.delay,
              !.adds[a].pushed = TRUE,
              !.adds[a].pc = IF input.delay # 0 THEN "setEx" ELSE "returned",
              !.adds[a].ret = IF input.delay # 0 THEN NullResult
                              ELSE [kind |-> "id", id |-> JobIdOf(a)]]
    /\ UNCHANGED batchVars
    /\ UNCHANGED <<hook, shop, calc, http>>

\* redis.lPush rejects: catch, return null
QueueAddFails(a) ==
    /\ NextToPush(a)
    /\ redis' = [redis EXCEPT !.adds[a].pc = "returned", !.adds[a].ret = NullResult]
    /\ UNCHANGED batchVars
    /\ UNCHANGED <<hook, shop, calc, http>>

\* redis.setEx of the delayed copy answers or rejects, then the return
QueueAddSetEx(a, answers) ==
    /\ redis.adds[a].pc = "setEx"
    /\ redis' = [redis EXCEPT
           !.adds[a].pc = "returned",
           !.adds[a].ret = IF answers /\ SetExAccepts(redis.adds[a].delay)
                           THEN [kind |-> "id", id |-> JobIdOf(a)]
                           ELSE NullResult]
    /\ UNCHANGED batchVars
    /\ UNCHANGED <<hook, shop, calc, http>>

\* the getNext calls differ in nothing but the moment Redis serves them:
\* they are numbered in that order
NextToServe(g) ==
    /\ redis.gets[g].pc = "idle"
    /\ \A h \in GetCalls : h < g => redis.gets[h].pc = "returned"

\* queue.getNext: redis.rPop answers
QueueGetNext(g) ==
    /\ NextToServe(g)
    /\ IF redis.list = <<>>
       THEN redis' = [redis EXCEPT !.gets[g].pc = "returned",
                                   !.gets[g].sawEmpty = TRUE,
                                   !.gets[g].result = NullResult]
       ELSE LET result == redis.list[Len(redis.list)] IN
            redis' = [redis EXCEPT
                !.list = SubSeq(@, 1, Len(@) - 1),
                !.returned = Append(@, JSONParse(result).id),
                !.gets[g].pc = "returned",
                !.gets[g].result = JSONParse(result)]
    /\ UNCHANGED batchVars
    /\ UNCHANGED <<hook, shop, calc, http>>

\* redis.rPop rejects: catch, return null
QueueGetNextFails(g) ==
    /\ NextToServe(g)
    /\ redis' = [redis EXCEPT !.gets[g].pc = "returned",
                              !.gets[g].failed = TRUE,
                              !.gets[g].result = NullResult]
    /\ UNCHANGED batchVars
    /\ UNCHANGED <<hook, shop, calc, http>>

\* LLEN: the number of entries of the list
LLen(list) == Len(list)

\* queue.getSize: redis.lLen answers and its number is returned, or it
\* rejects: catch, return 0
QueueGetSize(answers) ==
    /\ redis.size.pc = "idle"
    /\ redis' = [redis EXCEPT
           !.size = [pc |-> "returned",
                     failed |-> ~answers,
                     result |-> IF answers THEN LLen(redis.list) ELSE 0,
                     pending |-> Len(redis.added) - Len(redis.returned)]]
    /\ UNCHANGED batchVars
    /\ UNCHANGED <<hook, shop, calc, http>>

InitQueue ==
    /\ BatchIdle
    /\ redis = [use |-> "queue", list |-> <<>>, added |-> <<>>, returned |-> <<>>,
                adds |-> [a \in AddCalls |-> IdleAdd],
                gets |-> [g \in GetCalls |-> IdleGet],
                size |-> IdleSize]
    /\ hook = Off /\ shop = Off /\ calc = Off /\ http = Off

NextQueue ==
    \/ \E a \in AddCalls : \E input \in JobInputs : QueueAdd(a, input)
    \/ \E a \in AddCalls : QueueAddFails(a)
    \/ \E a \in AddCalls : \E answers \in BOOLEAN : QueueAddSetEx(a, answers)
    \/ \E g \in GetCalls : QueueGetNext(g)
    \/ \E g \in GetCalls : QueueGetNextFails(g)
    \/ \E answers \in BOOLEAN : QueueGetSize(answers)

SpecQueue == InitQueue /\ [][NextQueue]_vars

(***************************************************************************)
(* Properties                                                              *)
(***************************************************************************)
\* the chunk number of an input position
ChunkOf(j) == (j - 1) \div batchSize

\* the upstream answer carries a text that is not blank
Good(r) ==
    /\ r.kind = "completion" /\ r.shape = "text"
    /\ \E k \in 1..Len(r.text) : r.text[k] \notin Whitespace

\* the upstream answer is a completion without usable content
EmptyCompletion(r) ==
    /\ r.kind = "completion"
    /\ \/ r.shape \in HollowShapes
       \/ r.shape = "text" /\ \A k \in 1..Len(r.text) : r.text[k] \in Whitespace

\* which of the named causes the upstream answer is
CauseOf(r) ==
    IF EmptyCompletion(r) THEN "malformed-response"
    ELSE IF r.kind = "error" /\ r.error.code = "insufficient_quota" THEN "quota-exceeded"
    ELSE IF r.kind = "error" /\ r.error.code = "rate_limit_exceeded" THEN "rate-limited"
    ELSE IF r.kind = "error" THEN "other"
    ELSE "none"

NamedCauses == {"quota-exceeded", "rate-limited", "malformed-response"}

\* the message batchGenerateDescriptions records for a failed item
MessageFor(r) ==
    IF CauseOf(r) = "quota-exceeded" THEN "OpenAI service error: API quota exceeded"
    ELSE IF CauseOf(r) = "rate-limited" THEN "OpenAI service error: Rate limit exceeded"
    ELSE "OpenAI service error: Failed to generate description"

Settled == {j \in Positions : call[j] = "settled"}

\* batchGenerateDescriptions has been entered
Entered == pc = "done" \/ \E j \in Positions : attempts[j] > 0

\* C1: when batchGenerateDescriptions returns, successful + failed = total and
\* total is the number of input products, whatever succeeded or failed.
C1_CountsAddUp ==
    pc = "done" =>
        /\ ret.successful + ret.failed = ret.total
        /\ ret.total = Len(products)
        /\ ret.successful = Cardinality({j \in Positions : Good(resp[j])})

C1_Witness ==
    /\ pc = "done" /\ N > batchSize
    /\ ret.successful >= 2 /\ ret.failed >= 2

\* C2: barrier - a call of a later chunk is started only when every call of
\* every earlier chunk has settled, under every completion order.
C2_Barrier ==
    \A j \in Positions : \A k \in Positions :
        (ChunkOf(k) < ChunkOf(j) /\ call[j] # "notstarted") => call[k] = "settled"

C2_Witness ==
    /\ pc = "await" /\ i = batchSize
    /\ outOfOrder
    /\ \E j \in Chunk(i) : call[j] = "inflight"
    /\ results.failed >= 1 /\ results.successful >= 1

\* C3: a failed generation is recorded as that product's own outcome
\* (success = false and the error message); the outcomes of the other
\* products are their own; the batch raises only when it could not start.
C3_FailureIsolated ==
    /\ \A j \in Settled :
          /\ batchPromises[j].productId = products[j]
          /\ batchPromises[j].success = Good(resp[j])
          /\ ~Good(resp[j]) => batchPromises[j].error = MessageFor(resp[j])
    /\ pc = "raised" => \A j \in Positions : attempts[j] = 0
    /\ pc = "done" =>
          /\ Len(ret.results) = N
          /\ \A j \in Positions :
                /\ ret.results[j].success = Good(resp[j])
                /\ ~Good(resp[j]) => ret.results[j].error = MessageFor(resp[j])

C3_Witness ==
    /\ pc = "done" /\ N > batchSize
    /\ ~ret.results[1].success /\ ret.results[2].success
    /\ ~ret.results[3].success /\ ret.results[3].error # ret.results[1].error
    /\ ret.results[N].success

\* C4: every input product gets exactly one generation attempt and each
\* attempt issues exactly one completion call; nothing is skipped or retried.
C4_OneAttemptEach ==
    /\ \A j \in Positions : attempts[j] <= 1 /\ apiCalls[j] = attempts[j]
    /\ pc = "done" => \A j \in Positions : attempts[j] = 1 /\ apiCalls[j] = 1

C4_Witness ==
    /\ pc = "done" /\ N > batchSize
    /\ ret.failed = N - 1
    /\ \A j \in Positions : attempts[j] = 1

\* C5: the returned results are in input order, one entry per product, and a
\* chunk is appended as a whole after its barrier.
C5_InputOrder ==
    /\ pc = "done" =>
          /\ Len(ret.results) = N
          /\ \A j \in Positions : ret.results[j].productId = products[j]
    /\ pc \in {"await", "sleep"} => Len(results.results) \in {i, i + batchSize}
    /\ pc = "await" => Len(results.results) = i

C5_Witness ==
    /\ pc = "done" /\ N > batchSize
    /\ outOfOrder
    /\ products = Rev(N)
    /\ ret.results[1].productId # ret.results[2].productId

\* C6 as stated: successful + failed <= total always, and equality only in
\* states where the job is terminal (the call has returned).
C6_EqualityOnlyTerminal ==
    Entered =>
        /\ results.successful + results.failed <= results.total
        /\ results.successful + results.failed = results.total
              => (pc = "done" \/ JobTerminal)

\* C6 amended: successful + failed <= total always; equality holds exactly
\* when every call has settled, which is the case in every returned state.
C6_EqualityWhenAllSettled ==
    Entered =>
        /\ results.successful + results.failed <= results.total
        /\ results.successful + results.failed = results.total <=> Settled = Positions
        /\ pc = "done" => results.successful + results.failed = results.total

C6_Witness ==
    /\ pc = "await" /\ job.status = "processing"
    /\ N > batchSize
    /\ results.successful + results.failed = results.total
    /\ results.failed >= 1

\* C7: an empty upstream response (no choice, no message, no content, or
\* content that is blank) always makes generateDescription fail with the
\* no-content failure; no GeneratedDescription is returned.
C7_EmptyIsFailure ==
    \A j \in Settled :
        EmptyCompletion(resp[j]) =>
            /\ outcome[j].how = "throw"
            /\ outcome[j].value.class = "ExternalServiceError"
            /\ outcome[j].value.message = "OpenAI service error: Failed to generate description"
            /\ outcome[j].value.details.error = "No content generated from OpenAI"
            /\ ~batchPromises[j].success

C7_Witness ==
    /\ N = 1 /\ 1 \in Settled
    /\ resp[1].shape = "text" /\ Len(resp[1].text) >= 2
    /\ EmptyCompletion(resp[1])
    /\ outcome[1].how = "throw"

\* the message the code gives a failure of a named cause
TagOf(cause) ==
    CASE cause = "quota-exceeded" -> "OpenAI service error: API quota exceeded"
      [] cause = "rate-limited" -> "OpenAI service error: Rate limit exceeded"
      [] cause = "malformed-response" ->
            "OpenAI service error: Failed to generate description"

\* every failure of generateDescription is an ExternalServiceError
OnlyExternalServiceErrors ==
    \A j \in Settled :
        ~Good(resp[j]) =>
            /\ outcome[j].how = "throw"
            /\ outcome[j].value.class = "ExternalServiceError"
            /\ outcome[j].value.code = "EXTERNAL_SERVICE_ERROR"
            /\ outcome[j].value.statusCode = 502

\* C8 as stated: every failure of generateDescription is an
\* ExternalServiceError whose tag tells which of quota-exceeded, rate-limited
\* or malformed-response occurred.
C8_TagTellsCause ==
    /\ OnlyExternalServiceErrors
    /\ \A j \in Settled :
          ~Good(resp[j]) =>
              \A c \in NamedCauses :
                  outcome[j].value.message = TagOf(c) => CauseOf(resp[j]) = c

\* C8 amended: every failure of generateDescription is an
\* ExternalServiceError; quota-exceeded, rate-limited and malformed-response
\* are reported with three different messages; the messages of quota and
\* rate limit are given to those causes alone, and every other failure, a
\* response without content as well as a timeout or another upstream error,
\* carries the message of the malformed response, with the message of the
\* original error in details.error.
C8_TaggedFailures ==
    /\ OnlyExternalServiceErrors
    /\ \A j \in Settled : \A k \in Settled :
          (/\ CauseOf(resp[j]) \in NamedCauses
           /\ CauseOf(resp[k]) \in NamedCauses
           /\ CauseOf(resp[j]) # CauseOf(resp[k]))
              => outcome[j].value.message # outcome[k].value.message
    /\ \A j \in Settled :
          ~Good(resp[j]) =>
              /\ outcome[j].value.message = TagOf("quota-exceeded")
                    <=> CauseOf(resp[j]) = "quota-exceeded"
              /\ outcome[j].value.message = TagOf("rate-limited")
                    <=> CauseOf(resp[j]) = "rate-limited"
              /\ outcome[j].value.message = TagOf("malformed-response")
                    <=> CauseOf(resp[j]) \in {"malformed-response", "other"}
              /\ CauseOf(resp[j]) = "malformed-response"
                    => outcome[j].value.details.error = "No content generated from OpenAI"
              /\ CauseOf(resp[j]) = "other"
                    => outcome[j].value.details.error = resp[j].error.message

C8_Witness ==
    /\ N >= 4
    /\ \E j \in Settled : CauseOf(resp[j]) = "quota-exceeded"
    /\ \E j \in Settled : CauseOf(resp[j]) = "rate-limited"
    /\ \E j \in Settled : CauseOf(resp[j]) = "malformed-response"
    /\ \E j \in Settled :
          /\ CauseOf(resp[j]) = "other"
          /\ outcome[j].value.message = TagOf("malformed-response")

\* C9: a job's status only moves queued -> processing -> one of completed,
\* failed, cancelled; it starts queued, never goes back, and a terminal
\* status never changes.
C9_StatusStep ==
    \/ job'.status = job.status
    \/ <<job.status, job'.status>> \in
          {<<"none", "queued">>, <<"queued", "processing">>,
           <<"processing", "completed">>, <<"processing", "failed">>,
           <<"processing", "cancelled">>}

C9_StatusLifecycle == [][C9_StatusStep]_vars

C9_Witness ==
    /\ job.status = "cancelled"
    /\ pc = "cancelled"
    /\ cancelRequested
    /\ \A j \in Positions : attempts[j] = 0

\* C10: a job is completed exactly when every item was attempted, also when
\* items failed; a failed job is one that aborted before any item was
\* attempted and has no processed item.
C10_CompletedIffAllAttempted ==
    /\ JobTerminal =>
          (job.status = "completed" <=> \A j \in Positions : attempts[j] = 1)
    /\ job.status = "completed" => job.processed = job.total
    /\ job.status = "failed" =>
          /\ \A j \in Positions : attempts[j] = 0
          /\ job.processed = 0

C10_Witness ==
    /\ job.status = "completed" /\ N > batchSize
    /\ job.failed = N /\ job.successful = 0

\* the progress percentage reported by the job status read
Progress(jb) == IF jb.total = 0 THEN 0 ELSE (jb.processed * 100) \div jb.total

\* C11: cancellation is cooperative and only takes effect at a chunk
\* boundary: the chunk in flight finishes, no chunk is started once the cancel
\* request is in, and the cancelled job has processed exactly the chunks
\* already run, with successful + failed never above processed.
C11_CancelState ==
    /\ job.status # "none" => job.successful + job.failed <= job.processed
    /\ job.status = "cancelled" =>
          /\ \A j \in Positions : call[j] # "inflight"
          /\ job.processed = Cardinality({j \in Positions : attempts[j] > 0})
          /\ job.processed % batchSize = 0
          /\ job.processed < job.total
          /\ job.successful + job.failed = job.processed

C11_CancelStep ==
    /\ cancelRequested => attempts' = attempts
    /\ (CancelObserved /\ pc \in {"starting", "sleep"})
          => (pc' = pc \/ job'.status = "cancelled")

C11_CooperativeCancel == [](C11_CancelState) /\ [][C11_CancelStep]_vars

\* C12: between two reads of a job none of processed, successful, failed and
\* progress has decreased; the counters of the running batch only grow.
C12_CountsStep ==
    /\ job.status # "none" =>
          /\ job'.processed >= job.processed
          /\ job'.successful >= job.successful
          /\ job'.failed >= job.failed
          /\ Progress(job') >= Progress(job)
    /\ Entered =>
          /\ results'.successful >= results.successful
          /\ results'.failed >= results.failed
          /\ Len(results'.results) >= Len(results.results)

C12_MonotonicCounts == [][C12_CountsStep]_vars

C12_Witness ==
    /\ job.status = "processing" /\ pc = "await"
    /\ job.processed = batchSize /\ Progress(job) > 0 /\ Progress(job) < 100
    /\ job.successful >= 1 /\ job.failed >= 1
    /\ results.failed > job.failed

\* the signature of the delivery just handled is the digest of what was
\* signed under the configured secret (and, for Stripe, is fresh)
SignatureVerifies ==
    /\ hook.verified
    /\ IF hook.provider = "stripe"
       THEN /\ hook.stripeHeader.t = "now"
            /\ hook.stripeHeader.v1 = Hmac(hook.secret, "now." \o hook.payload)
       ELSE hook.shopifyHeader = Hmac(hook.secret, hook.payload)

\* C13: a webhook whose signature does not verify is rejected, no field of
\* its payload is read and the local Subscription is what it was; the
\* verifier's answer is the failure value (null for Stripe, false for
\* Shopify), never an event.
C13_InvalidSignatureRejected ==
    (hook.phase = "handled" /\ ~SignatureVerifies) =>
        /\ hook.event = Null
        /\ ~hook.ok
        /\ hook.status \in {400, 401, 429}
        /\ ~hook.read
        /\ hook.subscription = hook.before

C13_Witness ==
    /\ hook.phase = "handled" /\ hook.verified /\ ~SignatureVerifies
    /\ hook.provider = "stripe"
    /\ hook.body = "sub-updated-active"
    /\ hook.payload = "sub-updated-active"
    /\ hook.stripeHeader.v1 = Hmac("guess", "now.sub-updated-active")
    /\ hook.before = "inactive" /\ hook.subscription = "inactive"
    /\ hook.status = 400

\* what is stored for a product is its first description or a description
\* that was pushed for it, unchanged: a push replaces, it does not append
StoredIsPushed ==
    \A p \in ShopProducts : shop.store[p] \in {OldDescription} \cup shop.pushed[p]

\* when every call made for a product carried the same description and one
\* of them has returned, that description is stored, however many calls
\* were made
SamePushLeavesOne ==
    \A p \in ShopProducts : \A d \in Descriptions :
        (shop.pushed[p] = {d} /\ shop.returns[p] >= 1) => shop.store[p] = d

\* a call that has returned reports the product with the description pushed
ReturnsPushed ==
    \A k \in Slots :
        shop.slots[k].phase = "returned"
            => shop.slots[k].body_html = shop.slots[k].description

\* no call for the product is under way
Quiet(p) == \A k \in Slots : UnderWay(k) => shop.slots[k].productId # p

\* C14 as stated: a push is an idempotent overwrite, and the value of the
\* call made last for a product is the one stored once that call has
\* returned.
C14_LastPushedStored ==
    shop.phase = "on" =>
        /\ StoredIsPushed /\ SamePushLeavesOne /\ ReturnsPushed
        /\ \A p \in ShopProducts :
              (Quiet(p) /\ shop.last[p].phase = "returned")
                  => shop.store[p] = shop.last[p].description

\* C14 amended: a push is an idempotent overwrite, and the value of the call
\* made last for a product is the one stored once that call has returned,
\* provided no other call for the product was under way when it was made.
C14_IdempotentOverwrite ==
    shop.phase = "on" =>
        /\ StoredIsPushed /\ SamePushLeavesOne /\ ReturnsPushed
        /\ \A p \in ShopProducts :
              (shop.last[p].phase = "returned" /\ ~shop.last[p].overlapped)
                  => shop.store[p] = shop.last[p].description

C14_Witness ==
    /\ shop.phase = "on"
    /\ shop.pushed["p2"] = {<<"d2">>} /\ shop.returns["p2"] = 2
    /\ shop.store["p2"] = <<"d2">>
    /\ shop.pushed["p1"] = {<<"d1">>, <<"d2">>}
    /\ shop.last["p1"].phase = "returned" /\ ~shop.last["p1"].overlapped
    /\ shop.last["p1"].description = <<"d1">>
    /\ shop.store["p1"] = <<"d1">>

\* C15: for every token count and every model name that is not in the price
\* table, calculateCost gives what it gives for 'gpt-4'.
C15_UnknownModelFallsBack ==
    (calc.phase = "returned" /\ calc.model \notin PriceTableModels)
        => calc.result = calculateCost(calc.tokenCount, "gpt-4")

\* the claimed cost, in tenths of a millionth of a dollar:
\* 0.7 t input(m) + 0.3 t output(m)
SplitCostTimesTen(t, m) == 7 * t * pricing(m).input + 3 * t * pricing(m).output

\* C16 as stated: for every model of the price table the cost is exactly
\* (0.7 t input + 0.3 t output) / 1000.
C16_ExactSplit ==
    (calc.phase = "returned" /\ calc.model \in PriceTableModels)
        => 10 * calc.result = SplitCostTimesTen(calc.tokenCount, calc.model)

\* C16, amended: the 70% and 30% shares are rounded up to whole tokens
\* before they are priced, so the cost is (ceil(0.7 t) input + ceil(0.3 t)
\* output) / 1000: never below the exact split, less than one input and one
\* output token above it, equal to it when t is a multiple of 10, and 0.039
\* for calculateCost(1000, 'gpt-4').
C16_RoundedSplit ==
    (calc.phase = "returned" /\ calc.model \in PriceTableModels) =>
        LET t == calc.tokenCount
            p == pricing(calc.model)
            exact == SplitCostTimesTen(t, calc.model)
        IN  /\ exact <= 10 * calc.result
            /\ 10 * calc.result < exact + 10 * (p.input + p.output)
            /\ t % 10 = 0 => 10 * calc.result = exact
            /\ \E a \in ((7 * t) \div 10)..((7 * t) \div 10 + 1),
                  b \in ((3 * t) \div 10)..((3 * t) \div 10 + 1) :
                  /\ 10 * (a - 1) < 7 * t /\ 7 * t <= 10 * a
                  /\ 10 * (b - 1) < 3 * t /\ 3 * t <= 10 * b
                  /\ calc.result = a * p.input + b * p.output
            /\ (t = 1000 /\ calc.model = "gpt-4") => calc.result = 39000

C16_Witness ==
    /\ calc.phase = "returned"
    /\ calc.model = "gpt-4-turbo"
    /\ calc.tokenCount = 11
    /\ calc.result = 8 * 10 + 4 * 30

\* the status and code each class of the taxonomy is constructed with
ClassStatus(class) ==
    CASE class = "ValidationError" -> 400
      [] class = "AuthenticationError" -> 401
      [] class = "AuthorizationError" -> 403
      [] class = "NotFoundError" -> 404
      [] class = "RateLimitError" -> 429
      [] class = "ExternalServiceError" -> 502

ClassCode(class) ==
    CASE class = "ValidationError" -> "VALIDATION_ERROR"
      [] class = "AuthenticationError" -> "AUTHENTICATION_ERROR"
      [] class = "AuthorizationError" -> "AUTHORIZATION_ERROR"
      [] class = "NotFoundError" -> "NOT_FOUND_ERROR"
      [] class = "RateLimitError" -> "RATE_LIMIT_ERROR"
      [] class = "ExternalServiceError" -> "EXTERNAL_SERVICE_ERROR"

ErrorAnswered == http.mw = "errorHandler" /\ http.stage = "responded"

\* C18: an error of the taxonomy is answered with the status and code of its
\* class; the body carries error, code, timestamp, path and method, and
\* carries details only when the error has details (then the error's own).
C18_TaxonomyMapping ==
    (ErrorAnswered /\ http.error.class \in TaxonomyClasses) =>
        /\ http.response.status = ClassStatus(http.error.class)
        /\ http.response.code = ClassCode(http.error.class)
        /\ {"error", "code", "timestamp", "path", "method"} \subseteq http.response.fields
        /\ http.response.error # ""
        /\ http.response.path = http.path /\ http.response.method = http.method
        /\ "details" \in http.response.fields
              => (http.error.details # NoDetails
                  /\ http.response.details = http.error.details)

C18_Witness ==
    /\ ErrorAnswered
    /\ http.error.class = "ExternalServiceError"
    /\ http.error.details = ServiceDetails
    /\ http.response.status = 502
    /\ "details" \in http.response.fields
    /\ http.nodeEnv = "production"

\* C19: an exception from outside the taxonomy is answered with status 500
\* and code INTERNAL_ERROR, and in production the response shows neither the
\* stack nor the message of the exception.
C19_UnexpectedIsGeneric ==
    (ErrorAnswered /\ http.error.class \notin TaxonomyClasses) =>
        /\ http.response.status = 500
        /\ http.response.code = "INTERNAL_ERROR"
        /\ http.nodeEnv = "production" =>
              /\ "stack" \notin http.response.fields
              /\ http.response.stack = ""
              /\ (http.error.message # "" => http.response.error # http.error.message)

\* the texts a rule reads a value as: the text of the value, and for an
\* array the texts of its elements
TextsOf(v) == {toStringOf(ValuesOf(v)[k]) : k \in 1..Len(ValuesOf(v))}

BooleanTexts == {<<"t", "r", "u", "e">>, <<"f", "a", "l", "s", "e">>, <<"1">>, <<"0">>}

\* every option that is supplied is in its range, read as text
OptionsInRange(c) ==
    /\ Supplied(c.tone) => \A t \in TextsOf(c.tone) : Len(t) = 1 /\ t[1] \in Tones
    /\ Supplied(c.language)
          => \A t \in TextsOf(c.language) : Len(t) \in MinLanguageLength..MaxLanguageLength
    /\ Supplied(c.keywords)
          => (c.keywords.type = "array" /\ Len(c.keywords.items) <= MaxKeywords)
    /\ Supplied(c.wordCount)
          => \A t \in TextsOf(c.wordCount) :
                IntegerText(t) /\ IntegerOf(t) \in MinWordCount..MaxWordCount
    /\ Supplied(c.seoOptimization)
          => \A t \in TextsOf(c.seoOptimization) : t \in BooleanTexts

\* productIds has 1 to 1000 items
ProductIdsInRange(p) == p.type = "array" /\ Len(p.items) \in MinBulkItems..MaxBulkItems

\* validate has gone past its await: it has called next() or thrown
ValidateDone == http.mw = "validate" /\ http.stage \notin {"run", "pending", "awaited"}

\* C17 as stated: the request is accepted if and only if productIds has 1 to
\* 1000 items and every supplied option is in range, the range of an option
\* being read the way the rules read it, on the text of the value.
C17_AcceptedIffInRange ==
    ValidateDone =>
        (http.stage = "next"
            <=> (ProductIdsInRange(http.sent.productIds)
                 /\ OptionsInRange(http.sent.config)))

\* the rules the claim leaves out
ItemsAreIds(p) ==
    \A k \in 1..Len(p.items) : p.items[k].type = "string" /\ p.items[k].text # <<>>

KeywordsAreWords(c) ==
    Supplied(c.keywords) =>
        \A k \in 1..Len(c.keywords.items) :
            \A t \in TextsOf(c.keywords.items[k]) :
                Len(Trim(t)) \in MinKeywordLength..MaxKeywordLength

\* C17, amended: the request is accepted if and only if productIds is an
\* array of 1 to 1000 strings that are not empty, config (when supplied) is
\* an object, and every supplied option is in range, where each keyword has 1
\* to 100 characters once trimmed; a range is read on the text of the value,
\* and for an array on the text of each element, so that the text '100', a
\* one-element array and an empty array pass where their content does; any
\* other request makes validate throw a ValidationError with the failed
\* fields, and next() is not called for it.
C17_AcceptedIffAllRules ==
    ValidateDone =>
        /\ http.stage = "next"
              <=> (/\ ProductIdsInRange(http.sent.productIds)
                   /\ ItemsAreIds(http.sent.productIds)
                   /\ http.sent.config.type \in {"undefined", "object"}
                   /\ OptionsInRange(http.sent.config)
                   /\ KeywordsAreWords(http.sent.config))
        /\ http.stage = "next" => http.nextCalls = 1
        /\ http.stage # "next" =>
              /\ http.nextCalls = 0
              /\ http.error.class = "ValidationError"
              /\ http.error.statusCode = 400 /\ http.error.code = "VALIDATION_ERROR"
              /\ http.error.details.errors # {}
        /\ http.stage = "responded" => http.response.status = 400

C17_Witness ==
    /\ http.mw = "validate" /\ http.stage = "thrown"
    /\ http.sent.productIds = JArray(<<JString(<<>>)>>)
    /\ http.sent.config = NoConfig
    /\ http.error.details.errors = {"productIds.*"}
    /\ http.nextCalls = 0

AuthDone == http.mw = "auth" /\ http.stage \in {"responded", "next"}

\* the request carries a token that verifies, the token's user exists, and
\* the user's subscription is active
Entitled ==
    /\ TokenOf(http.header) = "valid"
    /\ http.user = "active"

\* C20: next() is called only for a request whose token verifies and whose
\* user exists with an active subscription; every other request gets exactly
\* one rejection (401 for a missing or invalid token or an unknown user, 403
\* SUBSCRIPTION_REQUIRED for a subscription that is not active) and next()
\* is not called for it.
C20_OnlyEntitledPass ==
    AuthDone =>
        /\ http.nextCalls > 0 => Entitled
        /\ ~Entitled =>
              /\ http.nextCalls = 0
              /\ http.responses = 1
              /\ TokenOf(http.header) # "valid" => http.response.status = 401
              /\ http.user = "<null>" => http.response.status = 401
              /\ http.user \in {"inactive", "past_due"}
                    => (http.response.status = 403
                        /\ http.response.code = "SUBSCRIPTION_REQUIRED")

\* the order basic < pro < enterprise
TierRank(plan) == CASE plan = "basic" -> 1 [] plan = "pro" -> 2 [] plan = "enterprise" -> 3

PlanGateDone ==
    /\ http.mw = "gate" /\ http.gate = "requirePlan" /\ http.stage # "arrived"
    /\ http.plan # NoUser /\ http.requiredPlan \in PlanTiers

\* C21: requirePlan(r) lets an authenticated request through if and only if
\* the user's plan is a tier at or above r; a plan that is no tier is refused
\* with 403 UPGRADE_REQUIRED for every tier r.
C21_PlanOrder ==
    PlanGateDone =>
        /\ http.stage = "next"
              <=> (http.plan \in PlanTiers
                   /\ TierRank(http.plan) >= TierRank(http.requiredPlan))
        /\ http.plan \notin PlanTiers
              => (http.response.status = 403 /\ http.response.code = "UPGRADE_REQUIRED")

FeatureGateDone ==
    /\ http.mw = "gate" /\ http.gate = "requireFeature" /\ http.stage # "arrived"
    /\ http.plan \in PlanTiers
    /\ http.feature \in {"customTone", "seoOptimization", "bulkGeneration",
                         "customTraining", "apiAccess"}

\* C30: for every tier p and every feature f among customTone,
\* seoOptimization, bulkGeneration, customTraining and apiAccess,
\* requireFeature(f) lets a user on p through if and only if
\* config.plans[p].features[f] is true.
C30_FeatureTablesAgree ==
    FeatureGateDone =>
        (http.stage = "next" <=> ConfigPlanFeature(http.plan, http.feature))

\* C27: a token that is well-formed and correctly signed but expired is
\* rejected with 401 TOKEN_EXPIRED, a malformed or wrongly signed token with
\* 401 TOKEN_INVALID.
C27_TokenFailuresDistinguished ==
    (http.mw = "auth" /\ http.stage = "responded") =>
        /\ TokenOf(http.header) = "expired"
              => (http.response.status = 401 /\ http.response.code = "TOKEN_EXPIRED")
        /\ TokenOf(http.header) = "forged"
              => (http.response.status = 401 /\ http.response.code = "TOKEN_INVALID")

\* the calls that have been issued and have not settled
InFlight == {j \in Positions : call[j] = "inflight"}

\* C22: the pause is taken exactly between consecutive chunks: it starts
\* only when a chunk has been appended and another chunk follows, every later
\* chunk starts out of a pause, and a call over at most five products
\* (the empty list included) never pauses.
C22_PauseState ==
    /\ pc = "sleep" => (i + batchSize < N /\ ChunkSettled(i))
    /\ N <= batchSize => (pc # "sleep" /\ slept = 0)
    /\ pc \in {"await", "sleep"} => slept = i \div batchSize
    /\ pc = "done" => slept = (IF N = 0 THEN 0 ELSE (N - 1) \div batchSize)

C22_PauseStep ==
    /\ (pc = "await" /\ pc' # "await" /\ i + batchSize < N) => pc' = "sleep"
    /\ (pc = "await" /\ pc' # "await" /\ i + batchSize >= N) => pc' = "done"
    /\ (pc' = "await" /\ i' # i) => (pc = "sleep" /\ slept' = slept + 1)
    /\ slept' # slept => (pc = "sleep" /\ pc' = "await")

C22_PauseBetweenChunks == [](C22_PauseState) /\ [][C22_PauseStep]_vars

C22_Witness ==
    /\ pc = "done" /\ N = batchSize + 1 /\ slept = 1
    /\ Len(ret.results) = N

\* C23: never more than five generation calls are in flight, and the calls
\* in flight all belong to the chunk the loop is at.
C23_AtMostOneChunkInFlight ==
    /\ Cardinality(InFlight) <= batchSize
    /\ \A j \in InFlight : j \in Chunk(i) /\ ChunkOf(j) = i \div batchSize
    /\ InFlight # {} => pc = "await"

C23_Witness ==
    /\ N = CancelProducts
    /\ i = 2 * batchSize
    /\ Cardinality(InFlight) = batchSize
    /\ \A j \in 1..(2 * batchSize) : call[j] = "settled"

\* the calls whose map callback has not returned
Unsettled == {j \in Positions : call[j] \in {"inflight", "answered"}}

\* C24: while a call of the chunk has not settled, no item of a later chunk
\* is started and no summary is returned; when every call settles in the
\* end, a call that has been entered returns its summary.
C24_Stalled ==
    Unsettled # {} =>
        /\ pc = "await"
        /\ \A k \in Positions : k > i + batchSize => attempts[k] = 0
        /\ ret = NewResults(<<>>)

C24_StalledStep ==
    (pc = "await" /\ \E j \in Chunk(i) : call'[j] \in {"inflight", "answered"})
        => (pc' = "await" /\ i' = i /\ attempts' = attempts /\ ret' = ret)

C24_ReturnsWhenCallsSettle ==
    /\ [](C24_Stalled)
    /\ [][C24_StalledStep]_vars
    /\ (pc = "await") ~> (pc = "done" /\ ret.total = N /\ Len(ret.results) = N)

C24_Witness ==
    /\ pc = "done" /\ N = MaxProducts
    /\ ret.total = N /\ Len(ret.results) = N
    /\ ret.failed >= 1 /\ ret.successful >= 1
    /\ slept >= 1

\* the text handed to parseResponse for the answered call of position j
ParsedText(j) == ContentOf(resp[j])

\* the GeneratedDescription returned for position j
Generated(j) == outcome[j].value

HasMarker(text, marker) == \E k \in 1..Len(text) : text[k] = marker

\* C25: for every non-empty response text, a text without the description
\* marker is returned whole as content, and a section whose marker is missing
\* leaves keywords empty and seoScore, metaDescription and titleTag
\* undefined, whatever options were passed.
C25_BestEffortExtraction ==
    \A j \in Positions :
        outcome[j].how = "return" =>
            /\ ~HasMarker(ParsedText(j), DescriptionMarker)
                   => Generated(j).content = ParsedText(j)
            /\ ~HasMarker(ParsedText(j), KeywordsMarker) => Generated(j).keywords = <<>>
            /\ ~HasMarker(ParsedText(j), SeoMarker) => Generated(j).seoScore = NoScore
            /\ ~HasMarker(ParsedText(j), MetaMarker)
                   => Generated(j).metaDescription = Undefined
            /\ ~HasMarker(ParsedText(j), TitleMarker) => Generated(j).titleTag = Undefined

\* the part of C25 that does not depend on the options: holds
C25_ExceptKeywords ==
    \A j \in Positions :
        outcome[j].how = "return" =>
            /\ ~HasMarker(ParsedText(j), DescriptionMarker)
                   => Generated(j).content = ParsedText(j)
            /\ ~HasMarker(ParsedText(j), KeywordsMarker)
                   => Generated(j).keywords
                        = (IF options.keywords = NoKeywords THEN <<>> ELSE options.keywords)
            /\ ~HasMarker(ParsedText(j), SeoMarker) => Generated(j).seoScore = NoScore
            /\ ~HasMarker(ParsedText(j), MetaMarker)
                   => Generated(j).metaDescription = Undefined
            /\ ~HasMarker(ParsedText(j), TitleMarker) => Generated(j).titleTag = Undefined

\* C26: an SEO score that generateDescription returns is an integer between
\* 0 and 100 inclusive, for every upstream response text.
C26_ScoreInRange ==
    \A j \in Positions :
        (outcome[j].how = "return" /\ Generated(j).seoScore # NoScore)
            => Generated(j).seoScore \in 0..100

\* the calls of window w, the window the call computed for its key, that
\* Redis answered and that returned true
AdmittedIn(w) ==
    {c \in Callers :
        /\ redis.callers[c].pc = "returned"
        /\ ~redis.callers[c].failed
        /\ redis.callers[c].window = w
        /\ redis.callers[c].result}

\* C28: of the calls to check that fall in one window, in any interleaving
\* of their steps, at most limit return true while Redis answers, in every
\* window whose counter rateLimiter.reset has not deleted; a call whose
\* Redis command fails returns true.
C28_AtMostLimitPerWindow ==
    /\ \A w \in Windows :
          redis.deleted[w] = 0 => Cardinality(AdmittedIn(w)) <= redis.limit
    /\ \A c \in Callers :
          (redis.callers[c].pc = "returned" /\ redis.callers[c].failed)
              => redis.callers[c].result

\* the ids that getNext calls have returned
HandedOut ==
    {redis.gets[g].result.id : g \in {h \in GetCalls : redis.gets[h].result # NullResult}}

\* the ordering part: the jobs handed out are, in order, the first jobs
\* pushed, no two getNext calls return the same job, and getNext on an empty
\* queue returns null
FifoState ==
    /\ Len(redis.returned) <= Len(redis.added)
    /\ redis.returned = SubSeq(redis.added, 1, Len(redis.returned))
    /\ \A g, h \in GetCalls :
          (g # h /\ redis.gets[g].result # NullResult /\ redis.gets[h].result # NullResult)
              => redis.gets[g].result.id # redis.gets[h].result.id
    /\ HandedOut = {redis.returned[k] : k \in 1..Len(redis.returned)}
    /\ \A g \in GetCalls : redis.gets[g].sawEmpty => redis.gets[g].result = NullResult

\* a getNext call that Redis answers returns the oldest job not yet handed
\* out, or null when there is none
FifoStep ==
    \A g \in GetCalls :
        (redis.gets[g].pc = "idle" /\ redis'.gets[g].pc = "returned"
            /\ ~redis'.gets[g].failed)
            => IF Len(redis.added) = Len(redis.returned)
               THEN redis'.gets[g].result = NullResult
               ELSE redis'.gets[g].result.id = redis.added[Len(redis.returned) + 1]

\* C29 as stated: the queue is first-in first-out and hands out each job at
\* most once, in any interleaving of add and getNext calls; getNext on an
\* empty queue returns null; and getSize equals the number of jobs added and
\* not yet returned, a job counting as added once its LPUSH was served.
C29_FifoAndSize ==
    /\ [](FifoState) /\ [][FifoStep]_vars
    /\ [](redis.size.pc = "returned" => redis.size.result = redis.size.pending)

\* C29, amended: the ordering part as stated; the number getSize returns is
\* the number of jobs pushed and not yet handed out when Redis answers LLEN,
\* and 0 when Redis rejects it; a job counts from the moment its LPUSH was
\* served, also when its add call went on to return null because the SETEX
\* of the delayed copy was rejected (as it always is for a delay under
\* 1000 ms), and a job that add returned the id of was pushed.
C29_FifoAndSizeWhenAnswered ==
    /\ [](FifoState) /\ [][FifoStep]_vars
    /\ [](redis.size.pc = "returned" =>
            IF redis.size.failed
            THEN redis.size.result = 0
            ELSE redis.size.result = redis.size.pending)
    /\ [](\A a \in AddCalls :
            /\ redis.adds[a].pushed <=>
                  \E k \in 1..Len(redis.added) : redis.added[k] = JobIdOf(a)
            /\ redis.adds[a].ret # NullResult => redis.adds[a].pushed
            /\ (redis.adds[a].pc = "returned" /\ redis.adds[a].pushed
                  /\ redis.adds[a].delay # 0 /\ ~SetExAccepts(redis.adds[a].delay))
                  => redis.adds[a].ret = NullResult)

C29_Witness ==
    /\ Len(redis.added) = MaxJobs
    /\ Len(redis.returned) >= 1
    /\ \E g \in GetCalls : redis.gets[g].sawEmpty
    /\ \E a \in AddCalls :
          /\ redis.adds[a].pc = "returned" /\ redis.adds[a].pushed
          /\ redis.adds[a].ret = NullResult
          /\ JobIdOf(a) \in HandedOut
    /\ redis.size.pc = "returned" /\ ~redis.size.failed
    /\ redis.size.result = 2

====
